---------------------------- MODULE Spec2Model ----------------------------
(***************************************************************************)
(* A model of the genotype bit-packing engine (glu/lib/genolib/genoarray)  *)
(* and of the chunked binary matrix codec (glu/lib/genolib/formats/binary).*)
(*                                                                         *)
(* Alleles are naturals: 0 is Python's None (the missing allele), which    *)
(* Python 2 orders before every string, and 1, 2, 3, ... are allele       *)
(* strings in their lexicographic order ('A', 'C', 'G', 'T' in the         *)
(* matrices handed to the codec).                                          *)
(***************************************************************************)
EXTENDS Integers, Sequences, FiniteSets, TLC

VARIABLES
  \* --- one UnphasedMarkerModel under test (specification SpecModel)
  model,      \* the model object: alleles, genotypes, genomap, bit_size, ...
  m_err,      \* exception raised by the last call on the model ("none" if it returned)
  m_ret,      \* value returned by the last call (-1 if it raised)
  m_last,     \* the last call: its name and arguments
  m_prev,     \* history: the model as it was before the last call
  m_bits0,    \* history: bit_size as the constructor computed it
  m_ops,      \* number of calls made so far (bounded by MaxOps)
  \* --- one BinaryGenomatrixWriter, its file, and one reader of that file
  writer,     \* the writer object
  disk,       \* the file the writer creates
  w_err,      \* exception raised by the last call on the writer ("none" if it returned)
  w_last,     \* name of the last call on the writer
  w_fail,     \* history: a call on the writer raised before the writer was closed
  written,    \* history: the rows handed to the writer, as labels and allele pairs
  w_header,   \* history: the column labels the writer was constructed with
  c_models,   \* the caller's models of the columns of an sdat matrix
  w_models,   \* history: the models the writer held when it was last open
  reader,     \* load_genomatrix_binary's stream: its generator's locals and the rows yielded
  \* --- one GenotypeArray under test (specification SpecArray)
  arr,        \* the array: its descriptor (with the models of its positions) and buffer
  a_err,      \* exception raised by the last operation on the array ("none" if it returned)
  a_last,     \* the last operation: its name and arguments
  a_prev,     \* history: the array as it was before the last operation
  a_shadow,   \* history: the allele pair most recently set at each position
  a_ops,      \* number of operations made so far (bounded by MaxArrayOps)
  \* --- one call of count_genotypes2 (specification SpecCount)
  counted     \* the arguments of the call and what it returned or raised

mvars == <<model, m_err, m_ret, m_last, m_prev, m_bits0, m_ops>>
cvars == <<writer, disk, w_err, w_last, w_fail, written, w_header, w_models, c_models, reader>>
avars == <<arr, a_err, a_last, a_prev, a_shadow, a_ops, counted>>
vars  == <<mvars, cvars, avars>>

---------------------------------------------------------------------------
\* Bounds of the model

\* allele strings 'A'.. drawn as call arguments: 1..MaxAllele
MaxAllele == 4
\* calls made on the model under test
MaxOps == 2
\* alleles the model under test holds when the calls start: 0..MaxPrefill
MaxPrefill == 2
\* bytes of a stored row one chunk spans at most: min(n, MaxChunkCols). The code
\* clamps at 8192 (ccols = min(n,8192)); the model scales the clamp down so that
\* rows wider than one chunk are reached
MaxChunkCols == 1
\* columns of the matrix handed to the writer: 1..MaxCols
MaxCols == 4
\* rows handed to the writer
MaxRows == 3
\* rows handed to one writerows call: 0..MaxBatch
MaxBatch == 2
\* rows handed to the writer when their widths are unconstrained (SpecSchema)
MaxSchemaRows == 2
\* positions of the array under test: 1..MaxArrayLen
MaxArrayLen == 3
\* initial bit offset of the descriptor of the array under test: 0..MaxOffset
MaxOffset == 1
\* operations made on the array under test after its construction
MaxArrayOps == 2
\* the highest GLU_VERSION attribute of a file that is read
MaxVersion == 3

---------------------------------------------------------------------------
\* genoarray.py: alleles, genotypes, models

None == 0

Alleles == 0..MaxAllele

\* _hemi(geno): exactly one of the two alleles is missing
_hemi(geno) == (geno[1] = None) # (geno[2] = None)

\* int(ceil(log(m)/log(2.0))): the number of halvings that bring m down to 1
RECURSIVE CeilLog2(_)
CeilLog2(m) == IF m <= 1 THEN 0 ELSE 1 + CeilLog2((m + 1) \div 2)

genotype_bit_size_nomissing(n, allow_hemizygote) ==
  LET m == IF allow_hemizygote THEN ((n + 1) * (n + 2)) \div 2
                               ELSE (n * (n + 1)) \div 2
  IN  CeilLog2(m)

genotype_bit_size(n, allow_hemizygote) ==
  LET m == IF allow_hemizygote THEN ((n + 1) * (n + 2)) \div 2
                               ELSE (n * (n + 1)) \div 2 + 1
  IN  CeilLog2(m)

\* byte_array_size(n) = int(ceil(n/8)) under true division
byte_array_size(n) == (n + 7) \div 8

Max2(a, b) == IF a >= b THEN a ELSE b
Min2(a, b) == IF a <= b THEN a ELSE b

\* list.index(x): 0-based position of the first occurrence
IndexOf(seq, x) == (CHOOSE i \in 1..Len(seq) : seq[i] = x /\ \A j \in 1..(i-1) : seq[j] # x) - 1

InSeq(seq, x) == \E i \in 1..Len(seq) : seq[i] = x

\* Genotype(model, allele1, allele2, index); gclass is derived from the alleles
Genotype(allele1, allele2, index) ==
  [allele1 |-> allele1, allele2 |-> allele2, index |-> index]

hemizygote(g) == (g.allele1 = None) # (g.allele2 = None)

alleles_of(g) == <<g.allele1, g.allele2>>

Result(m, r, e) == [model |-> m, ret |-> r, err |-> e]

\* UnphasedMarkerModel.add_allele with the width test moved one allele late
add_allele_offbyone(self, allele) ==
  IF InSeq(self.alleles, allele)
  THEN Result(self, IndexOf(self.alleles, allele), "none")
  ELSE LET n == Len(self.alleles)
           new_width == genotype_bit_size(n - 1, self.allow_hemizygote)
       IN  IF new_width > self.bit_size
           THEN Result(self, -1, "GenotypeError: fixed bit width")
           ELSE Result([self EXCEPT !.alleles = Append(@, allele)], n, "none")

\* UnphasedMarkerModel.add_allele that widens the model instead of failing
add_allele_grow(self, allele) ==
  IF InSeq(self.alleles, allele)
  THEN Result(self, IndexOf(self.alleles, allele), "none")
  ELSE LET n == Len(self.alleles)
           new_width == genotype_bit_size(n, self.allow_hemizygote)
       IN  Result([self EXCEPT !.alleles = Append(@, allele),
                               !.bit_size = Max2(@, new_width)], n, "none")

\* UnphasedMarkerModel.add_allele
add_allele(self, allele) ==
  IF InSeq(self.alleles, allele)
  THEN Result(self, IndexOf(self.alleles, allele), "none")
  ELSE LET n == Len(self.alleles)
           new_width == genotype_bit_size(n, self.allow_hemizygote)
       IN  IF new_width > self.bit_size
           THEN Result(self, -1, "GenotypeError: fixed bit width")
           ELSE Result([self EXCEPT !.alleles = Append(@, allele)], n, "none")

\* the tail of add_genotype once both alleles are in the model, with the
\* genotype entered in genomap under (allele1,allele2) only
add_genotype_oneway(self, geno) ==
  IF geno \in DOMAIN self.genomap
  THEN Result(self, self.genomap[geno], "none")
  ELSE LET s1 == Min2(geno[1], geno[2])
           s2 == Max2(geno[1], geno[2])
           r1 == add_allele(self, s1)
       IN  IF r1.err # "none" THEN Result(r1.model, -1, r1.err)
           ELSE LET r2 == add_allele(r1.model, s2)
                IN  IF r2.err # "none" THEN Result(r2.model, -1, r2.err)
                    ELSE LET m2 == r2.model
                             g  == Genotype(s1, s2, Len(m2.genotypes))
                         IN  IF ~m2.allow_hemizygote /\ hemizygote(g)
                             THEN Result(m2, -1, "GenotypeError: hemizygous")
                             ELSE Result([m2 EXCEPT
                                    !.genotypes = Append(@, g),
                                    !.genomap = (<<s1, s2>> :> g.index) @@ @],
                                    g.index, "none")

\* add_genotype without the hemizygote test
add_genotype_anyhemi(self, geno) ==
  IF geno \in DOMAIN self.genomap
  THEN Result(self, self.genomap[geno], "none")
  ELSE LET s1 == Min2(geno[1], geno[2])
           s2 == Max2(geno[1], geno[2])
           r1 == add_allele(self, s1)
       IN  IF r1.err # "none" THEN Result(r1.model, -1, r1.err)
           ELSE LET r2 == add_allele(r1.model, s2)
                IN  IF r2.err # "none" THEN Result(r2.model, -1, r2.err)
                    ELSE LET m2 == r2.model
                             g  == Genotype(s1, s2, Len(m2.genotypes))
                         IN  Result([m2 EXCEPT
                               !.genotypes = Append(@, g),
                               !.genomap = (<<s2, s1>> :> g.index) @@
                                           (<<s1, s2>> :> g.index) @@ @],
                               g.index, "none")

\* add_genotype that numbers a new genotype by the allele count
add_genotype_byalleles(self, geno) ==
  IF geno \in DOMAIN self.genomap
  THEN Result(self, self.genomap[geno], "none")
  ELSE LET s1 == Min2(geno[1], geno[2])
           s2 == Max2(geno[1], geno[2])
           r1 == add_allele(self, s1)
       IN  IF r1.err # "none" THEN Result(r1.model, -1, r1.err)
           ELSE LET r2 == add_allele(r1.model, s2)
                IN  IF r2.err # "none" THEN Result(r2.model, -1, r2.err)
                    ELSE LET m2 == r2.model
                             g  == Genotype(s1, s2, Len(m2.alleles) - 1)
                         IN  IF ~m2.allow_hemizygote /\ hemizygote(g)
                             THEN Result(m2, -1, "GenotypeError: hemizygous")
                             ELSE Result([m2 EXCEPT
                                    !.genotypes = Append(@, g),
                                    !.genomap = (<<s2, s1>> :> g.index) @@
                                                (<<s1, s2>> :> g.index) @@ @],
                                    g.index, "none")

\* UnphasedMarkerModel.add_genotype
add_genotype(self, geno) ==
  IF geno \in DOMAIN self.genomap
  THEN Result(self, self.genomap[geno], "none")
  ELSE LET s1 == Min2(geno[1], geno[2])      \* allele1,allele2 = sorted(geno)
           s2 == Max2(geno[1], geno[2])
           r1 == add_allele(self, s1)
       IN  IF r1.err # "none" THEN Result(r1.model, -1, r1.err)
           ELSE LET r2 == add_allele(r1.model, s2)
                IN  IF r2.err # "none" THEN Result(r2.model, -1, r2.err)
                    ELSE LET m2 == r2.model
                             allele1 == m2.alleles[r1.ret + 1]
                             allele2 == m2.alleles[r2.ret + 1]
                             g == Genotype(allele1, allele2, Len(m2.genotypes))
                         IN  IF ~m2.allow_hemizygote /\ hemizygote(g)
                             THEN Result(m2, -1, "GenotypeError: hemizygous")
                             ELSE Result([m2 EXCEPT
                                    !.genotypes = Append(@, g),
                                    !.genomap = (<<allele2, allele1>> :> g.index) @@
                                                (<<allele1, allele2>> :> g.index) @@ @],
                                    g.index, "none")

\* UnphasedMarkerModel.get_genotype (also __getitem__)
get_genotype(self, geno) ==
  IF geno \in DOMAIN self.genomap
  THEN Result(self, self.genomap[geno], "none")
  ELSE IF /\ InSeq(self.alleles, geno[1])
          /\ InSeq(self.alleles, geno[2])
          /\ (self.allow_hemizygote \/ ~_hemi(geno))
       THEN add_genotype(self, geno)
       ELSE Result(self, -1, "KeyError")

\* UnphasedMarkerModel.__init__: max(2,None) is 2 in Python 2, as max(2,0) is
UnphasedMarkerModel(allow_hemizygote, max_alleles) ==
  LET k == Max2(2, max_alleles)
      empty == [genomap          |-> <<>>,
                genotypes        |-> <<>>,
                alleles          |-> <<>>,
                max_alleles      |-> k,
                bit_size         |-> genotype_bit_size(k, allow_hemizygote),
                allow_hemizygote |-> allow_hemizygote]
  IN  add_genotype(empty, <<None, None>>).model

\* the pairs (alleles[i],alleles[j]), i <= j, in the order of the comprehension
RECURSIVE PairsFrom(_, _, _)
PairsFrom(al, i, j) ==
  IF i > Len(al) THEN <<>>
  ELSE IF j > Len(al) THEN PairsFrom(al, i + 1, i + 1)
  ELSE <<<<al[i], al[j]>>>> \o PairsFrom(al, i, j + 1)

\* for g in genos: model.add_genotype(g)  -- stops at the first exception
RECURSIVE add_genotypes(_, _)
add_genotypes(r, genos) ==
  IF genos = <<>> \/ r.err # "none" THEN r
  ELSE add_genotypes(add_genotype(r.model, Head(genos)), Tail(genos))

\* model_from_alleles; `sorted` is sorted(set(alleles)) without None, and
\* max_alleles 0 is "not given"
model_from_alleles(sorted, allow_hemizygote, max_alleles) ==
  LET k       == IF max_alleles = 0 THEN Len(sorted) ELSE max_alleles
      alleles == IF allow_hemizygote THEN <<None>> \o sorted ELSE sorted
      genos   == PairsFrom(alleles, 1, 1)
  IN  add_genotypes(Result(UnphasedMarkerModel(allow_hemizygote, k), -1, "none"), genos)

---------------------------------------------------------------------------
\* bitarray: bit regions of a byte buffer, little-endian within a byte

Bit(data, k) == (data[(k \div 8) + 1] \div (2^(k % 8))) % 2

\* getbits(data, i, readlen): the integer held by bits [i, i+readlen)
RECURSIVE getbits(_, _, _)
getbits(data, i, readlen) ==
  IF readlen = 0 THEN 0
  ELSE Bit(data, i) + 2 * getbits(data, i + 1, readlen - 1)

\* reading or writing past the end of the buffer raises IndexError
InBuffer(data, i, len) == i >= 0 /\ i + len <= 8 * Len(data)

\* setbits(data, i, value, writelen): bits [i, i+writelen) := value
setbits(data, i, value, writelen) ==
  [k \in 1..Len(data) |->
     LET nb(b) == LET pos == 8 * (k - 1) + b
                  IN  IF pos >= i /\ pos < i + writelen
                      THEN (value \div (2^(pos - i))) % 2
                      ELSE (data[k] \div (2^b)) % 2
     IN  nb(0) + 2 * nb(1) + 4 * nb(2) + 8 * nb(3)
         + 16 * nb(4) + 32 * nb(5) + 64 * nb(6) + 128 * nb(7)]

---------------------------------------------------------------------------
\* genoarray.py: descriptors and arrays

\* offsets[i+1] = offsets[i] + models[i].bit_size, offsets[0] = initial_offset
RECURSIVE offset_at(_, _, _)
offset_at(models, initial_offset, i) ==
  IF i = 0 THEN initial_offset
  ELSE offset_at(models, initial_offset, i - 1) + models[i].bit_size

\* a descriptor that drops initial_offset: offsets[0] = 0
GenotypeArrayDescriptor_zerooffset(models, initial_offset) ==
  LET n       == Len(models)
      offsets == [i \in 1..(n + 1) |-> offset_at(models, 0, i - 1)]
  IN  [models      |-> models,
       offsets     |-> offsets,
       bit_size    |-> offsets[n + 1],
       byte_size   |-> byte_array_size(offsets[n + 1]),
       homogeneous |-> IF n > 0 /\ \A i \in 1..n : models[i].bit_size = models[1].bit_size
                       THEN models[1].bit_size ELSE 0]

\* GenotypeArrayDescriptor.__init__; offsets is 1-based here: offsets[i+1] is
\* the code's offsets[i]
GenotypeArrayDescriptor(models, initial_offset) ==
  LET n       == Len(models)
      offsets == [i \in 1..(n + 1) |-> offset_at(models, initial_offset, i - 1)]
  IN  [models      |-> models,
       offsets     |-> offsets,
       bit_size    |-> offsets[n + 1],
       byte_size   |-> byte_array_size(offsets[n + 1]),
       homogeneous |-> IF n > 0 /\ \A i \in 1..n : models[i].bit_size = models[1].bit_size
                       THEN models[1].bit_size ELSE 0]

\* GenotypeArray(descriptor): a zeroed buffer of the descriptor's byte size
GenotypeArray(descriptor) ==
  [descriptor |-> descriptor, data |-> [k \in 1..descriptor.byte_size |-> 0]]

\* GenotypeArray.__getitem__(i), i 0-based: the index read and the exception
\* raised (the buffer too short, or no genotype of the model with that index)
getitem(self, i) ==
  LET descr    == self.descriptor
      m        == descr.models[i + 1]
      startbit == descr.offsets[i + 1]
      width    == m.bit_size
  IN  IF ~InBuffer(self.data, startbit, width) THEN [index |-> -1, err |-> "IndexError"]
      ELSE LET j == getbits(self.data, startbit, width)
           IN  IF j >= Len(m.genotypes) THEN [index |-> -1, err |-> "IndexError"]
               ELSE [index |-> j, err |-> "none"]

\* self[:] : the genotype indices at every position, or the first exception
getslice(self) ==
  LET n  == Len(self.descriptor.models)
      gs == [i \in 1..n |-> getitem(self, i - 1)]
  IN  IF \E i \in 1..n : gs[i].err # "none"
      THEN [genos |-> <<>>, err |-> "IndexError"]
      ELSE [genos |-> [i \in 1..n |-> gs[i].index], err |-> "none"]

\* __setitem__ that writes one bit more than the model's width
setitem_wide(self, i, index) ==
  LET descr == self.descriptor
      width == descr.models[i + 1].bit_size
      wider == IF InBuffer(self.data, descr.offsets[i + 1], width + 1)
               THEN width + 1 ELSE width
  IN  [self EXCEPT !.data = setbits(@, descr.offsets[i + 1], index, wider)]

\* GenotypeArray.__setitem__(i, geno) for a Genotype of descr.models[i]
\* (its index), i 0-based
setitem(self, i, index) ==
  LET descr == self.descriptor
  IN  [self EXCEPT !.data = setbits(@, descr.offsets[i + 1], index,
                                    descr.models[i + 1].bit_size)]

RECURSIVE setitems(_, _, _)
setitems(self, genos, i) ==
  IF i >= Len(genos) THEN self
  ELSE setitems(setitem(self, i, genos[i + 1]), genos, i + 1)

\* self[:] = genos that writes the positions it has values for and compares
\* the lengths afterwards
setslice_late(self, genos) ==
  LET n     == Min2(Len(genos), Len(self.descriptor.models))
      wrote == setitems(self, SubSeq(genos, 1, n), 0)
  IN  IF Len(genos) # Len(self.descriptor.models)
      THEN [array |-> wrote, err |-> "IndexError"]
      ELSE [array |-> wrote, err |-> "none"]

\* GenotypeArray.__setitem__(slice(None), genos) for Genotypes of the
\* positions' models (their indices): IndexError('Invalid slice') before any
\* position is written when the lengths differ
setslice(self, genos) ==
  IF Len(genos) # Len(self.descriptor.models)
  THEN [array |-> self, err |-> "IndexError"]
  ELSE [array |-> setitems(self, genos, 0), err |-> "none"]

\* GenotypeArray(descriptor, genos): a zeroed buffer, then self[:] = genos;
\* when that raises, `array` is the object under construction
GenotypeArrayFrom(descriptor, genos) == setslice(GenotypeArray(descriptor), genos)

\* GenotypeArray.__setitem__(i, geno) for a 2-tuple of alleles, i 0-based:
\* geno = descr.models[i][geno], which is get_genotype and may change the
\* model of the position, then the genotype's index is written
setitem_pair(self, i, geno) ==
  LET r == get_genotype(self.descriptor.models[i + 1], geno)
  IN  IF r.err # "none" THEN [array |-> self, err |-> r.err]
      ELSE LET grown == [self EXCEPT !.descriptor.models[i + 1] = r.model]
           IN  [array |-> setitem(grown, i, r.ret), err |-> "none"]

\* the allele pairs a consumer reads from an array: list(g) as tuples
calls_of(self) ==
  LET r == getslice(self)
  IN  IF r.err # "none" THEN <<"IndexError">>
      ELSE [i \in 1..Len(r.genos) |->
              alleles_of(self.descriptor.models[i].genotypes[r.genos[i] + 1])]

\* the loop of count_genotypes2 from position k on:
\* counts[geno1.index*n+geno2.index] += 1, counts 0-based in the code
RECURSIVE tally(_, _, _, _, _)
tally(counts, genos1, genos2, n, k) ==
  IF k > Len(genos1) THEN [counts |-> counts, err |-> "none"]
  ELSE LET i == genos1[k] * n + genos2[k]
       IN  IF i >= Len(counts) THEN [counts |-> counts, err |-> "IndexError"]
           ELSE tally([counts EXCEPT ![i + 1] = @ + 1], genos1, genos2, n, k + 1)

\* count_genotypes2(model1,genos1,model2,genos2); genos1 and genos2 are
\* sequences of Genotypes of model1 and of model2, given by their indices. out
\* is zip(genos,counts): the pairs (g1,g2), g1 in model1.genotypes and, for
\* each, g2 in model2.genotypes, each with the count at its place in the list
count_genotypes2(model1, genos1, model2, genos2) ==
  IF Len(genos1) # Len(genos2) THEN [out |-> <<>>, err |-> "ValueError"]
  ELSE LET n == Len(model1.genotypes)
           m == Len(model2.genotypes)
           t == tally([p \in 1..(n * m) |-> 0], genos1, genos2, n, 1)
       IN  IF t.err # "none" THEN [out |-> <<>>, err |-> t.err]
           ELSE [out |-> [p \in 1..(n * m) |->
                            [g1    |-> model1.genotypes[((p - 1) \div m) + 1],
                             g2    |-> model2.genotypes[((p - 1) % m) + 1],
                             count |-> t.counts[p]]],
                 err |-> "none"]

---------------------------------------------------------------------------
\* formats/binary.py: the matrix file and its writer

CLOSED  == 0
NOTOPEN == 1
OPEN    == 2

GENOMATRIX_COMPAT_VERSION == 1
GENOMATRIX_VERSION        == 2
GENOTRIPLE_COMPAT_VERSION == 1
GENOTRIPLE_VERSION        == 2

\* crows = min(max(8, scratch//n), 8192)
CHUNKROWS_MIN == 8
CHUNKROWS_MAX == 8192

\* the writer's default scratch, 16*1024*1024
DEFAULT_SCRATCH == 16777216

\* alleles[0] = '' in the stored allele pool
EMPTY_STRING == -1

\* the file before tables.openFile(filename, mode='w')
NoFile ==
  [exists |-> FALSE, format |-> "", version |-> 0, compat_version |-> 0,
   rowsize |-> 0, chunkshape |-> <<0, 0>>, genotypes |-> <<>>,
   saved |-> FALSE, rows |-> <<>>, cols |-> <<>>,
   locus_models |-> <<>>, models |-> <<>>, model_genotypes |-> <<>>,
   model_alleles |-> <<>>, handles |-> 0,
   nodes |-> {}, samples |-> <<>>, loci |-> <<>>, triples |-> <<>>]

\* BinaryGenomatrixWriter.__init__
BinaryGenomatrixWriter(format, header, scratch) ==
  [state |-> NOTOPEN, format |-> format, header |-> header, scratch |-> scratch,
   models |-> <<>>, rowkeys |-> <<>>, chunk |-> <<>>, chunkrows |-> 0]

WResult(self, gfile, e) == [self |-> self, gfile |-> gfile, err |-> e]

\* EArray.append(chunk): the rows of a chunk must all have the array's row width
earray_append(gfile, chunk) ==
  IF \A i \in 1..Len(chunk) : Len(chunk[i]) = gfile.rowsize
  THEN [gfile |-> [gfile EXCEPT !.genotypes = @ \o chunk], err |-> "none"]
  ELSE [gfile |-> gfile, err |-> "ValueError"]

\* BinaryGenomatrixWriter._open(row1)
_open(self, row1) ==
  LET n     == Len(row1.data)
      crows == Min2(Max2(CHUNKROWS_MIN, self.scratch \div n), CHUNKROWS_MAX)
      ccols == Min2(n, MaxChunkCols)
  IN  WResult([self EXCEPT !.models    = IF self.format = "sdat"
                                         THEN row1.descriptor.models ELSE <<>>,
                           !.chunkrows = crows,
                           !.rowkeys   = <<>>,
                           !.chunk     = <<>>,
                           !.state     = OPEN],
              [NoFile EXCEPT !.exists = TRUE, !.handles = 1,
                             !.format = self.format,
                             !.version = GENOMATRIX_VERSION,
                             !.compat_version = GENOMATRIX_COMPAT_VERSION,
                             !.rowsize = n,
                             !.chunkshape = <<crows, ccols>>],
              "none")

\* buffer_row that appends the chunk only when it has grown past chunkrows
buffer_row_late(self, gfile, rowkey, genos) ==
  LET s1 == [self EXCEPT !.models  = IF self.format = "ldat"
                                     THEN Append(@, genos.descriptor.models[1]) ELSE @,
                         !.rowkeys = Append(@, rowkey),
                         !.chunk   = Append(@, genos.data)]
  IN  IF Len(s1.chunk) > s1.chunkrows
      THEN LET a == earray_append(gfile, s1.chunk)
           IN  IF a.err # "none" THEN WResult(s1, gfile, a.err)
               ELSE WResult([s1 EXCEPT !.chunk = <<>>], a.gfile, "none")
      ELSE WResult(s1, gfile, "none")

\* the body of writerow, and of the two loops of writerows, for an open writer:
\* no test of the row against the schema
buffer_row(self, gfile, rowkey, genos) ==
  LET s1 == [self EXCEPT !.models  = IF self.format = "ldat"
                                     THEN Append(@, genos.descriptor.models[1]) ELSE @,
                         !.rowkeys = Append(@, rowkey),
                         !.chunk   = Append(@, genos.data)]
  IN  IF Len(s1.chunk) >= s1.chunkrows
      THEN LET a == earray_append(gfile, s1.chunk)
           IN  IF a.err # "none" THEN WResult(s1, gfile, a.err)
               ELSE WResult([s1 EXCEPT !.chunk = <<>>], a.gfile, "none")
      ELSE WResult(s1, gfile, "none")

\* writerow without the test for a closed writer
writerow_unchecked(self, gfile, rowkey, genos) ==
  IF self.state = NOTOPEN
  THEN LET o == _open(self, genos) IN buffer_row(o.self, o.gfile, rowkey, genos)
  ELSE buffer_row(self, gfile, rowkey, genos)

\* BinaryGenomatrixWriter.writerow
writerow(self, gfile, rowkey, genos) ==
  IF self.state = CLOSED THEN WResult(self, gfile, "IOError")
  ELSE IF self.state = NOTOPEN
  THEN LET o == _open(self, genos) IN buffer_row(o.self, o.gfile, rowkey, genos)
  ELSE buffer_row(self, gfile, rowkey, genos)

\* for rowkey,genos in rows: ...  -- stops at the first exception
RECURSIVE buffer_rows(_, _)
buffer_rows(r, rows) ==
  IF rows = <<>> \/ r.err # "none" THEN r
  ELSE buffer_rows(buffer_row(r.self, r.gfile, Head(rows).rowkey, Head(rows).genos),
                   Tail(rows))

\* writerows that opens the file before it looks for a first row
writerows_openfirst(self, gfile, rows) ==
  IF self.state = CLOSED THEN WResult(self, gfile, "IOError")
  ELSE IF self.state = NOTOPEN
  THEN LET o == _open(self, IF rows = <<>> THEN [data |-> <<0>>, descriptor |-> [models |-> <<>>]]
                            ELSE Head(rows).genos)
       IN  buffer_rows(o, rows)
  ELSE buffer_rows(WResult(self, gfile, "none"), rows)

\* BinaryGenomatrixWriter.writerows
writerows(self, gfile, rows) ==
  IF self.state = CLOSED THEN WResult(self, gfile, "IOError")
  ELSE IF self.state = NOTOPEN
  THEN IF rows = <<>> THEN WResult(self, gfile, "none")
       ELSE LET o  == _open(self, Head(rows).genos)
                r1 == writerow(o.self, o.gfile, Head(rows).rowkey, Head(rows).genos)
            IN  buffer_rows(r1, Tail(rows))
  ELSE buffer_rows(WResult(self, gfile, "none"), rows)

\* the key save_models collapses models by
model_key_params(m) ==
  [max_alleles      |-> m.max_alleles,
   allow_hemizygote |-> m.allow_hemizygote,
   genos            |-> <<>>]

\* key = (model.max_alleles, model.allow_hemizygote) + the allele pairs of
\* model.genotypes[1:]
model_key(m) ==
  [max_alleles      |-> m.max_alleles,
   allow_hemizygote |-> m.allow_hemizygote,
   genos            |-> [i \in 1..(Len(m.genotypes) - 1) |-> alleles_of(m.genotypes[i + 1])]]

\* for allele in model.alleles: allelemap.setdefault(allele, len(allelemap))
RECURSIVE add_to_pool(_, _)
add_to_pool(pool, alleles) ==
  IF alleles = <<>> THEN pool
  ELSE add_to_pool(IF InSeq(pool, Head(alleles)) THEN pool ELSE Append(pool, Head(alleles)),
                   Tail(alleles))

\* the first loop of save_models: modelmap and allelemap as lists in index order,
\* and the locus_models column
RECURSIVE collect_models(_, _)
collect_models(acc, models) ==
  IF models = <<>> THEN acc
  ELSE LET m   == Head(models)
           key == model_key(m)
       IN  IF InSeq(acc.modelmap, key)
           THEN collect_models([acc EXCEPT !.locus_models = Append(@, IndexOf(acc.modelmap, key))],
                               Tail(models))
           ELSE collect_models([modelmap     |-> Append(acc.modelmap, key),
                                allelemap    |-> add_to_pool(acc.allelemap, m.alleles),
                                locus_models |-> Append(acc.locus_models, Len(acc.modelmap))],
                               Tail(models))

\* the model_genotypes rows (model, allele1, allele2) of the models from i on
RECURSIVE genotype_rows(_, _, _)
genotype_rows(keys, allelemap, i) ==
  IF i > Len(keys) THEN <<>>
  ELSE [j \in 1..Len(keys[i].genos) |->
          <<i - 1, IndexOf(allelemap, keys[i].genos[j][1]),
                   IndexOf(allelemap, keys[i].genos[j][2])>>]
       \o genotype_rows(keys, allelemap, i + 1)

\* save_models(gfile, loci, genome, models): izip_exact raises when loci and
\* models differ in length
save_models(gfile, loci, models) ==
  IF Len(loci) # Len(models) THEN [gfile |-> gfile, err |-> "LengthMismatch"]
  ELSE LET acc == collect_models([modelmap |-> <<>>, allelemap |-> <<>>,
                                  locus_models |-> <<>>], models)
       IN  [gfile |-> [gfile EXCEPT
              !.locus_models    = acc.locus_models,
              !.models          = [i \in 1..Len(acc.modelmap) |->
                                     <<acc.modelmap[i].max_alleles,
                                       IF acc.modelmap[i].allow_hemizygote THEN 1 ELSE 0>>],
              !.model_genotypes = genotype_rows(acc.modelmap, acc.allelemap, 1),
              !.model_alleles   = [acc.allelemap EXCEPT ![1] = EMPTY_STRING]],
            err |-> "none"]

\* BinaryGenomatrixWriter.close
close(self, gfile) ==
  IF self.state = CLOSED THEN WResult(self, gfile, "IOError")
  ELSE IF self.state = NOTOPEN THEN WResult([self EXCEPT !.state = CLOSED], gfile, "none")
  ELSE LET s1 == [self EXCEPT !.state = CLOSED]
           a  == IF s1.chunk # <<>> THEN earray_append(gfile, s1.chunk)
                 ELSE [gfile |-> gfile, err |-> "none"]
       IN  IF a.err # "none" THEN WResult(s1, gfile, a.err)
           ELSE LET s2   == [s1 EXCEPT !.chunk = <<>>]
                    g2   == [a.gfile EXCEPT !.rows = s2.rowkeys, !.cols = s2.header]
                    loci == IF s2.format = "ldat" THEN s2.rowkeys ELSE s2.header
                    m    == save_models(g2, loci, s2.models)
                IN  IF m.err # "none" THEN WResult(s2, g2, m.err)
                    ELSE WResult([s2 EXCEPT !.rowkeys = <<>>, !.header = <<>>,
                                            !.models = <<>>],
                                 [m.gfile EXCEPT !.saved = TRUE, !.handles = 0,
                                                 !.nodes = {"rows", "cols", "locus_models"}],
                                 "none")

\* BinaryGenotripleWriter.__init__: the file is opened in the constructor
BinaryGenotripleWriter ==
  [gfile     |-> [NoFile EXCEPT !.exists = TRUE, !.handles = 1,
                                !.format = "genotriple",
                                !.version = GENOTRIPLE_VERSION,
                                !.compat_version = GENOTRIPLE_COMPAT_VERSION],
   samplemap |-> <<>>, locusmap |-> <<>>, modelmap |-> <<>>, err |-> "none"]

\* BinaryGenotripleWriter.writerow(sample, locus, geno) on an open writer; geno
\* is a Genotype: its model and its index. samplemap, locusmap and modelmap are
\* lists in the order of the numbers handed out
triple_writerow(self, sample, locus, geno) ==
  LET locusmap  == IF InSeq(self.locusmap, locus) THEN self.locusmap
                   ELSE Append(self.locusmap, locus)
      locusnum  == IndexOf(locusmap, locus)
      samplemap == IF InSeq(self.samplemap, sample) THEN self.samplemap
                   ELSE Append(self.samplemap, sample)
  IN  IF locusnum < Len(self.modelmap) /\ self.modelmap[locusnum + 1] # geno.model
      THEN [self EXCEPT !.locusmap = locusmap, !.err = "AssertionError"]
      ELSE [self EXCEPT
              !.locusmap  = locusmap,
              !.samplemap = samplemap,
              !.modelmap  = IF locusnum < Len(@) THEN @ ELSE Append(@, geno.model),
              !.gfile.triples = Append(@, <<IndexOf(samplemap, sample), locusnum,
                                            geno.index>>)]

\* BinaryGenotripleWriter.writerows(triples)  -- stops at the first exception
RECURSIVE triple_writerows(_, _)
triple_writerows(self, triples) ==
  IF triples = <<>> \/ self.err # "none" THEN self
  ELSE triple_writerows(triple_writerow(self, Head(triples)[1], Head(triples)[2],
                                        Head(triples)[3]),
                        Tail(triples))

\* BinaryGenotripleWriter.close on an open writer: the file it leaves
triple_close(self) ==
  LET g1 == [self.gfile EXCEPT !.samples = self.samplemap, !.loci = self.locusmap]
      m  == save_models(g1, self.locusmap, self.modelmap)
  IN  IF m.err # "none" THEN g1
      ELSE [m.gfile EXCEPT !.saved = TRUE, !.handles = 0,
                           !.nodes = {"samples", "loci", "locus_models"}]

\* save_genotriples_binary(filename, triples)
save_genotriples_binary(triples) ==
  triple_close(triple_writerows(BinaryGenotripleWriter, triples))

---------------------------------------------------------------------------
\* formats/binary.py: load_models and load_genomatrix_binary

\* seq[start:stop] with Python's clamping, start and stop 0-based
Slice(seq, start, stop) ==
  SubSeq(seq, Min2(start, Len(seq)) + 1, Min2(stop, Len(seq)))

Repeat(x, n) == [i \in 1..n |-> x]

\* the genotypes of stored model i: the model_genotypes rows of that model, with
\* the pool indices turned back into alleles (alleles[0] = None)
RECURSIVE stored_genotypes(_, _, _)
stored_genotypes(rows, alleles, i) ==
  IF rows = <<>> THEN <<>>
  ELSE LET r == Head(rows)
       IN  (IF r[1] = i THEN <<<<alleles[r[2] + 1], alleles[r[3] + 1]>>>> ELSE <<>>)
           \o stored_genotypes(Tail(rows), alleles, i)

\* key = (mod[1],mod[0])+genotypes of stored model i (1-based)
stored_key(gfile, alleles, i) ==
  <<gfile.models[i][2], gfile.models[i][1],
    stored_genotypes(gfile.model_genotypes, alleles, i - 1)>>

\* modelcache.get(key): the first stored model with the key of stored model i,
\* whose object stands for every later one with that key
modelcache(gfile, alleles, i) ==
  CHOOSE j \in 1..i :
    /\ stored_key(gfile, alleles, j) = stored_key(gfile, alleles, i)
    /\ \A k \in 1..(j - 1) : stored_key(gfile, alleles, k) # stored_key(gfile, alleles, i)

\* UnphasedMarkerModel(mod[1],mod[0]) and add_genotype for each stored genotype
new_model(gfile, alleles, i) ==
  add_genotypes(Result(UnphasedMarkerModel(gfile.models[i][2] # 0, gfile.models[i][1]),
                       -1, "none"),
                stored_genotypes(gfile.model_genotypes, alleles, i - 1))

\* load_models_v2 that constructs a model for every locus
load_models_v2_copies(gfile, loci) ==
  IF Len(gfile.locus_models) # Len(loci)
  THEN [models |-> <<>>, refs |-> <<>>, err |-> "AssertionError"]
  ELSE LET alleles == [gfile.model_alleles EXCEPT ![1] = None]
           built   == [i \in 1..Len(gfile.models) |-> new_model(gfile, alleles, i)]
       IN  IF \E i \in 1..Len(built) : built[i].err # "none"
           THEN [models |-> <<>>, refs |-> <<>>, err |-> "GenotypeError"]
           ELSE [models |-> [l \in 1..Len(loci) |-> built[gfile.locus_models[l] + 1].model],
                 refs   |-> [l \in 1..Len(loci) |-> l],
                 err    |-> "none"]

\* load_models_v1: one model object per key of the stored definitions, then
\* models[l] = allmodels[locus_models[l]]; refs[l] names the object of locus l
\* by the stored model it was constructed for
load_models_v1(gfile, loci) ==
  IF Len(gfile.locus_models) # Len(loci)
  THEN [models |-> <<>>, refs |-> <<>>, err |-> "AssertionError"]
  ELSE LET alleles   == [gfile.model_alleles EXCEPT ![1] = None]
           object    == [i \in 1..Len(gfile.models) |-> modelcache(gfile, alleles, i)]
           allmodels == [i \in 1..Len(gfile.models) |-> new_model(gfile, alleles, object[i])]
       IN  IF \E i \in 1..Len(allmodels) : allmodels[i].err # "none"
           THEN [models |-> <<>>, refs |-> <<>>, err |-> "GenotypeError"]
           ELSE [models |-> [l \in 1..Len(loci) |-> allmodels[gfile.locus_models[l] + 1].model],
                 refs   |-> [l \in 1..Len(loci) |-> object[gfile.locus_models[l] + 1]],
                 err    |-> "none"]

\* load_models_v2: as load_models_v1, with the model of each Locus taken from
\* models[lmod[0]]
load_models_v2(gfile, loci) ==
  IF Len(gfile.locus_models) # Len(loci)
  THEN [models |-> <<>>, refs |-> <<>>, err |-> "AssertionError"]
  ELSE LET alleles == [gfile.model_alleles EXCEPT ![1] = None]
           object  == [i \in 1..Len(gfile.models) |-> modelcache(gfile, alleles, i)]
           models  == [i \in 1..Len(gfile.models) |-> new_model(gfile, alleles, object[i])]
       IN  IF \E i \in 1..Len(models) : models[i].err # "none"
           THEN [models |-> <<>>, refs |-> <<>>, err |-> "GenotypeError"]
           ELSE [models |-> [l \in 1..Len(loci) |-> models[gfile.locus_models[l] + 1].model],
                 refs   |-> [l \in 1..Len(loci) |-> object[gfile.locus_models[l] + 1]],
                 err    |-> "none"]

\* load_models(gfile, loci, version)
load_models(gfile, loci, version) ==
  IF version = 1 THEN load_models_v1(gfile, loci)
  ELSE IF version = 2 THEN load_models_v2(gfile, loci)
  ELSE [models |-> <<>>, refs |-> <<>>, err |-> "ValueError"]

Unique(seq) == \A i, j \in 1..Len(seq) : seq[i] = seq[j] => i = j

\* the reader before a load. kind is the loader called; handle says that the
\* file opened by tables.openFile has not been closed; version is the version
\* load_models was called with; fetched and chunkarrays describe the last pass
\* of a transposing chunk loop: the bytes read from the store, and the buffer
\* length and descriptor byte size of each per-row array made from them
NoReader ==
  [state |-> "idle", format |-> "", scratch |-> 0, models |-> <<>>, refs |-> <<>>,
   i |-> 0, stop |-> 0, stopbit |-> 0, offset |-> 0, out |-> <<>>, err |-> "none",
   kind |-> "", handle |-> FALSE, version |-> 0, fetched |-> 0, chunkarrays |-> <<>>]

FormatError      == "ValueError: Unknown format"
UnboundLoadError == "UnboundLocalError: _load"

\* a loader that passes the stored GLU_VERSION on whatever it is
stored_version(version, compat_version) == version

\* `if version > GENOMATRIX_VERSION: version = compat_version`, the same test in
\* both loaders
fallback_version(version, compat_version) ==
  IF version > GENOMATRIX_VERSION THEN compat_version ELSE version

\* load_genomatrix_binary up to the construction of the row generator; the
\* file is open from tables.openFile on, whatever is raised later
load_genomatrix_binary(gfile, format, scratch) ==
  LET failed(e) == [NoReader EXCEPT !.state = "error", !.format = format, !.err = e,
                                    !.kind = "matrix", !.handle = TRUE]
      version   == fallback_version(gfile.version, gfile.compat_version)
      loci      == IF gfile.format = "sdat" THEN gfile.cols ELSE gfile.rows
  IN  IF format \notin {"ldat", "sdat"} THEN failed(FormatError)
      ELSE IF gfile.compat_version > GENOMATRIX_VERSION THEN failed("ValueError")
      ELSE IF ~gfile.saved \/ "cols" \notin gfile.nodes THEN failed("NoSuchNodeError")
      ELSE IF ~Unique(gfile.cols) \/ ~Unique(gfile.rows) THEN failed("ValueError")
      ELSE LET m == load_models(gfile, loci, version)
           IN  IF m.err # "none" THEN [failed(m.err) EXCEPT !.version = version]
               ELSE IF gfile.format \notin {"ldat", "sdat"}
               THEN [failed(UnboundLoadError) EXCEPT !.version = version]
               ELSE [NoReader EXCEPT !.state = "open", !.format = format,
                                     !.scratch = scratch, !.models = m.models,
                                     !.refs = m.refs, !.kind = "matrix",
                                     !.handle = TRUE, !.version = version]

\* load_genotriples_binary up to the construction of the row generator
load_genotriples_binary(gfile) ==
  LET failed(e) == [NoReader EXCEPT !.state = "error", !.format = "genotriple",
                                    !.err = e, !.kind = "triples", !.handle = TRUE]
      version   == fallback_version(gfile.version, gfile.compat_version)
  IN  IF gfile.format # "genotriple" THEN failed(FormatError)
      ELSE IF gfile.compat_version > GENOTRIPLE_VERSION THEN failed("ValueError")
      ELSE IF ~gfile.saved \/ "samples" \notin gfile.nodes THEN failed("NoSuchNodeError")
      ELSE LET m == load_models(gfile, gfile.loci, version)
           IN  IF m.err # "none" THEN [failed(m.err) EXCEPT !.version = version]
               ELSE [NoReader EXCEPT !.state = "open", !.format = "genotriple",
                                     !.models = m.models, !.refs = m.refs,
                                     !.kind = "triples", !.handle = TRUE,
                                     !.version = version]

\* one pass of the loop of the triple generator _load: the next stored row as
\* (sample, locus, genotype index of the locus model)
load_triple(gfile, rd) ==
  LET row     == gfile.triples[rd.i + 1]
      locusid == row[2]
  IN  IF row[1] >= Len(gfile.samples) \/ locusid >= Len(gfile.loci)
         \/ row[3] >= Len(rd.models[locusid + 1].genotypes)
      THEN [rd EXCEPT !.state = "error", !.err = "IndexError"]
      ELSE [rd EXCEPT !.i = @ + 1,
                      !.out = Append(@, <<gfile.samples[row[1] + 1], gfile.loci[locusid + 1],
                                          rd.models[locusid + 1].genotypes[row[3] + 1]>>)]

\* the end of either generator: gfile.close() after the loop
load_end(rd) == [rd EXCEPT !.state = "done", !.handle = FALSE]

\* a (label, GenotypeArray) pair as the generator yields it
Yielded(label, g) == [label |-> label, genos |-> g]

\* number of passes of the chunk loop of _load
chunks_of(gfile, rd) ==
  IF rd.format = gfile.format
  THEN LET chunksize == Max2(2, rd.scratch \div gfile.rowsize)
       IN  (Len(gfile.rows) + chunksize - 1) \div chunksize
  ELSE LET chunkcols == gfile.chunkshape[2]
           chunksize == Max2(1, rd.scratch \div (chunkcols * Len(gfile.rows))) * chunkcols
       IN  (gfile.rowsize + chunksize - 1) \div chunksize

\* one pass of the chunk loop when the stored format is the requested one
load_same(gfile, rd) ==
  LET chunksize == Max2(2, rd.scratch \div gfile.rowsize)
      start     == rd.stop
      stop      == rd.stop + chunksize
      labels    == Slice(gfile.rows, start, stop)
      chunk     == Slice(gfile.genotypes, start, stop)
      descr(j)  == IF gfile.format = "sdat"
                   THEN GenotypeArrayDescriptor(rd.models, 0)
                   ELSE GenotypeArrayDescriptor(Repeat(rd.models[start + j], Len(gfile.cols)), 0)
  IN  [rd EXCEPT !.i = @ + 1, !.stop = stop,
                 !.out = @ \o [j \in 1..Len(labels) |->
                                 Yielded(labels[j], [descriptor |-> descr(j),
                                                     data |-> chunk[j]])]]

\* the sequential search for the end of a chunk of stored columns: stop is
\* advanced while the chunk holds fewer than chunkbits bits; offsets is 1-based
RECURSIVE scan(_, _, _, _, _, _)
scan(offsets, startbit, chunkbits, ncolumns, stop, stopbit) ==
  IF (stopbit - startbit) < chunkbits /\ stop < ncolumns
  THEN IF stop + 2 > Len(offsets)
       THEN [stop |-> stop + 1, stopbit |-> stopbit, err |-> "IndexError"]
       ELSE scan(offsets, startbit, chunkbits, ncolumns, stop + 1, offsets[stop + 2])
  ELSE [stop |-> stop, stopbit |-> stopbit, err |-> "none"]

\* a chunk that ends at the last whole byte before stopbit
stopbyte_floor(stopbit) == stopbit \div 8

\* stopbyte = int((stopbit+7)//8): the first byte after those the chunk has bits in
stopbyte_of(stopbit) == (stopbit + 7) \div 8

\* one pass of the chunk loop of a transposing _load: the stored format is
\* sdat and ldat is requested, or the stored format is ldat and sdat is requested
load_transposed(gfile, rd) ==
  LET nrows     == Len(gfile.rows)
      columns   == gfile.cols
      descr     == GenotypeArrayDescriptor(rd.models, 0)
      chunkcols == gfile.chunkshape[2]
      chunksize == Max2(1, rd.scratch \div (chunkcols * nrows)) * chunkcols
      chunkbits == chunksize * 8
      start     == rd.stop
      startbit  == rd.stopbit
      sc        == scan(descr.offsets, startbit, chunkbits, Len(columns), start, startbit)
      failed(e) == [rd EXCEPT !.state = "error", !.err = e]
  IN  IF sc.err # "none" THEN failed(sc.err)
      ELSE
      LET stop      == sc.stop
          stopbit   == sc.stopbit
          labels    == Slice(columns, start, stop)
          startbyte == startbit \div 8
          stopbyte  == stopbyte_of(stopbit)
          offset    == startbit % 8
          chunk     == [j \in 1..nrows |-> Slice(gfile.genotypes[j], startbyte, stopbyte)]
          chunkdescr(j) ==
            IF gfile.format = "sdat"
            THEN GenotypeArrayDescriptor(Slice(rd.models, start, stop), offset)
            ELSE GenotypeArrayDescriptor(Repeat(rd.models[j], stop - start), offset)
          chunkgenos == [j \in 1..nrows |->
                           getslice([descriptor |-> chunkdescr(j), data |-> chunk[j]])]
          outdescr(j) ==
            IF gfile.format = "sdat"
            THEN GenotypeArrayDescriptor(Repeat(rd.models[start + j], nrows), 0)
            ELSE descr
          column(j) == GenotypeArrayFrom(outdescr(j),
                                         [r \in 1..nrows |-> chunkgenos[r].genos[j]])
          fetched     == nrows * (stopbyte - startbyte)
          chunkarrays == [j \in 1..nrows |->
                            [size      |-> Len(chunk[j]),
                             byte_size |-> chunkdescr(j).byte_size]]
      IN  IF \E j \in 1..nrows : chunkgenos[j].err # "none"
          THEN [failed("IndexError") EXCEPT !.fetched = fetched,
                                            !.chunkarrays = chunkarrays]
          ELSE IF \E j \in 1..Len(labels) : column(j).err # "none"
          THEN [failed("IndexError") EXCEPT !.fetched = fetched,
                                            !.chunkarrays = chunkarrays]
          ELSE [rd EXCEPT !.i = @ + 1, !.stop = stop, !.stopbit = stopbit,
                          !.offset = offset,
                          !.fetched = fetched, !.chunkarrays = chunkarrays,
                          !.out = @ \o [j \in 1..Len(labels) |->
                                          Yielded(labels[j], column(j).array)]]

\* one pass of the chunk loop of the generator _load
load_chunk(gfile, rd) ==
  IF rd.format = gfile.format THEN load_same(gfile, rd) ELSE load_transposed(gfile, rd)

---------------------------------------------------------------------------
\* Specification SpecModel: one model, built by model_from_alleles, then any calls

NoCall == [op |-> "init", allele |-> None, geno |-> <<None, None>>]

\* the max_alleles arguments the model is constructed with
MaxAllelesArgs == {0, 1, 2, 3, 5, 10}

\* the codec's variables while the model is exercised
CodecIdle ==
  /\ writer   = BinaryGenomatrixWriter("sdat", <<>>, DEFAULT_SCRATCH)
  /\ disk     = NoFile
  /\ w_err    = "none"
  /\ w_last   = "init"
  /\ w_fail   = FALSE
  /\ written  = <<>>
  /\ w_header = <<>>
  /\ w_models = <<>>
  /\ c_models = <<>>
  /\ reader   = NoReader

NoArrayOp == [op |-> "init", i |-> 0, geno |-> <<None, None>>, genos |-> <<>>]

\* the array's variables while something else is exercised
\* before count_genotypes2 is called
NoCount ==
  [op |-> "init", model1 |-> UnphasedMarkerModel(FALSE, 0), genos1 |-> <<>>,
   model2 |-> UnphasedMarkerModel(FALSE, 0), genos2 |-> <<>>, out |-> <<>>, err |-> "none"]

ArrayIdle ==
  /\ counted  = NoCount
  /\ arr      = GenotypeArray(GenotypeArrayDescriptor(<<>>, 0))
  /\ a_prev   = GenotypeArray(GenotypeArrayDescriptor(<<>>, 0))
  /\ a_err    = "none"
  /\ a_last   = NoArrayOp
  /\ a_shadow = <<>>
  /\ a_ops    = 0

InitModel ==
  /\ CodecIdle
  /\ ArrayIdle
  /\ \E h \in BOOLEAN, k \in MaxAllelesArgs, n \in 0..MaxPrefill :
       LET r == model_from_alleles([i \in 1..n |-> i], h, k)
       IN  /\ r.err = "none"
           /\ model   = r.model
           /\ m_prev  = r.model
           /\ m_bits0 = genotype_bit_size(Max2(2, IF k = 0 THEN n ELSE k), h)
           /\ m_err   = "none"
           /\ m_ret   = -1
           /\ m_last  = NoCall
           /\ m_ops   = 0

Called(r, op, a, g) ==
  /\ m_ops < MaxOps
  /\ m_ops'  = m_ops + 1
  /\ m_prev' = model
  /\ model'  = r.model
  /\ m_err'  = r.err
  /\ m_ret'  = r.ret
  /\ m_last' = [op |-> op, allele |-> a, geno |-> g]
  /\ UNCHANGED <<m_bits0, cvars, avars>>

AddAllele ==
  \E a \in Alleles : Called(add_allele(model, a), "add_allele", a, <<None, None>>)

AddGenotype ==
  \E a \in Alleles, b \in Alleles :
    Called(add_genotype(model, <<a, b>>), "add_genotype", None, <<a, b>>)

GetGenotype ==
  \E a \in Alleles, b \in Alleles :
    Called(get_genotype(model, <<a, b>>), "get_genotype", None, <<a, b>>)

NextModel == AddAllele \/ AddGenotype \/ GetGenotype

SpecModel == InitModel /\ [][NextModel]_vars

---------------------------------------------------------------------------
\* Specification Spec: a caller writes a matrix row by row, closes the writer,
\* and the file is read back in either format

\* the alleles 'A', 'C', 'G', 'T'
A == 1
C == 2
G == 3
T == 4

\* the models of the loci of the matrices written: two alleles (2 bits) and
\* three alleles (3 bits)
LocusModels ==
  { model_from_alleles(<<A, C>>, FALSE, 0).model,
    model_from_alleles(<<A, C, G>>, FALSE, 0).model }

\* the reader's scratch budgets: one byte, and the default
Scratches == {1, DEFAULT_SCRATCH}

LocusLabel(i)  == <<"l", i>>
SampleLabel(i) == <<"s", i>>

RowLabel(format, k) == IF format = "sdat" THEN SampleLabel(k) ELSE LocusLabel(k)
Header(format, n)   == [i \in 1..n |-> IF format = "sdat" THEN LocusLabel(i)
                                       ELSE SampleLabel(i)]

\* the genotype indices of row k over `models`: at column c, genotype (k + c)
\* modulo the number of genotypes of the column's model
Fill(models, k) ==
  [c \in 1..Len(models) |-> (k + c) % Len(models[c].genotypes)]

\* the 2-locus, 3-sample matrix of the end-to-end scenario, loci-major:
\* l1 = (A,A),(A,G),(G,G) and l2 = (None,None),(C,T),(T,T)
ScenarioRows ==
  << [models |-> Repeat(model_from_alleles(<<A, G>>, FALSE, 0).model, 3),
      idx    |-> <<1, 2, 3>>],
     [models |-> Repeat(model_from_alleles(<<C, T>>, FALSE, 0).model, 3),
      idx    |-> <<0, 2, 3>>] >>

\* the rows a caller may hand over as row k of a matrix of ncols columns: the
\* models of the row's positions and the genotype index at each
RowChoices(format, ncols, k) ==
  IF format = "sdat"
  THEN { [models |-> c_models, idx |-> Fill(c_models, k)] }
  ELSE { [models |-> Repeat(m, ncols), idx |-> Fill(Repeat(m, ncols), k)] :
           m \in LocusModels }
       \cup (IF ncols = 3 /\ k <= 2 THEN {ScenarioRows[k]} ELSE {})

\* the (rowkey, GenotypeArray) pair of a choice
RowOf(format, k, ch) ==
  [rowkey |-> RowLabel(format, k),
   genos  |-> GenotypeArrayFrom(GenotypeArrayDescriptor(ch.models, 0), ch.idx).array]

\* the same row as labels and allele pairs
Logical(format, k, ch) ==
  [label |-> RowLabel(format, k),
   calls |-> [c \in 1..Len(ch.idx) |-> alleles_of(ch.models[c].genotypes[ch.idx[c] + 1])]]

ModelIdle ==
  /\ model   = UnphasedMarkerModel(FALSE, 0)
  /\ m_prev  = UnphasedMarkerModel(FALSE, 0)
  /\ m_bits0 = 2
  /\ m_err   = "none"
  /\ m_ret   = -1
  /\ m_last  = NoCall
  /\ m_ops   = 0

Init ==
  /\ ModelIdle
  /\ ArrayIdle
  /\ \E format \in {"ldat", "sdat"}, ncols \in 1..MaxCols :
       /\ writer = BinaryGenomatrixWriter(format, Header(format, ncols), DEFAULT_SCRATCH)
       /\ w_header = Header(format, ncols)
       /\ c_models \in (IF format = "sdat" THEN [1..ncols -> LocusModels] ELSE {<<>>})
  /\ disk    = NoFile
  /\ w_err   = "none"
  /\ w_last  = "init"
  /\ w_fail  = FALSE
  /\ written = <<>>
  /\ w_models = <<>>
  /\ reader  = NoReader

\* a call on the writer that returned r
WriterCalled(r, op, rows) ==
  /\ writer'  = r.self
  /\ disk'    = r.gfile
  /\ w_err'   = r.err
  /\ w_last'  = op
  /\ w_fail'  = (w_fail \/ (writer.state # CLOSED /\ r.err # "none"))
  /\ written' = IF writer.state # CLOSED THEN written \o rows ELSE written
  /\ w_models' = IF r.self.state = OPEN THEN r.self.models ELSE w_models
  /\ UNCHANGED <<mvars, avars, w_header, c_models, reader>>

NCols == Len(w_header)

WriteRow ==
  /\ reader.state = "idle"
  /\ writer.state = CLOSED \/ Len(written) < MaxRows
  /\ \E ch \in RowChoices(writer.format, NCols, Len(written) + 1) :
       LET row == RowOf(writer.format, Len(written) + 1, ch)
       IN  WriterCalled(writerow(writer, disk, row.rowkey, row.genos), "writerow",
                        <<Logical(writer.format, Len(written) + 1, ch)>>)

WriteRows ==
  /\ reader.state = "idle"
  /\ \E n \in 0..MaxBatch :
       /\ writer.state = CLOSED \/ Len(written) + n <= MaxRows
       /\ \E m \in LocusModels :
            LET ch(j) == IF writer.format = "sdat"
                         THEN [models |-> c_models,
                               idx |-> Fill(c_models, Len(written) + j)]
                         ELSE [models |-> Repeat(m, NCols),
                               idx |-> Fill(Repeat(m, NCols), Len(written) + j)]
                rows  == [j \in 1..n |-> RowOf(writer.format, Len(written) + j, ch(j))]
            IN  WriterCalled(writerows(writer, disk, rows), "writerows",
                             [j \in 1..n |-> Logical(writer.format, Len(written) + j, ch(j))])

Close ==
  /\ reader.state = "idle"
  /\ WriterCalled(close(writer, disk), "close", <<>>)

\* the GLU_VERSION attribute the file is read with: as this writer sets it, and
\* as a file without the attribute reads (the default of _get_v_attr)
FileVersions == {1, GENOMATRIX_VERSION}

\* load_genomatrix_binary(filename, format, scratch=scratch) on the closed file
Load ==
  /\ reader.state = "idle"
  /\ writer.state = CLOSED
  /\ disk.exists
  /\ \E format \in {"ldat", "sdat"}, scratch \in Scratches, version \in FileVersions :
       reader' = load_genomatrix_binary([disk EXCEPT !.version = version], format, scratch)
  /\ UNCHANGED <<mvars, avars, writer, disk, w_err, w_last, w_fail, written, w_header, w_models, c_models>>

\* the consumer draws the rows of the next chunk from the generator
NextChunk ==
  /\ reader.state = "open"
  /\ reader.i < chunks_of(disk, reader)
  /\ reader' = load_chunk(disk, reader)
  /\ UNCHANGED <<mvars, avars, writer, disk, w_err, w_last, w_fail, written, w_header, w_models, c_models>>

\* the chunk loop is over: gfile.close() and the generator is exhausted
Exhaust ==
  /\ reader.state = "open"
  /\ reader.i >= chunks_of(disk, reader)
  /\ reader' = load_end(reader)
  /\ UNCHANGED <<mvars, avars, writer, disk, w_err, w_last, w_fail, written, w_header, w_models, c_models>>

Next == WriteRow \/ WriteRows \/ Close \/ Load \/ NextChunk \/ Exhaust

Spec == Init /\ [][Next]_vars

---------------------------------------------------------------------------
\* Specification SpecSchema: a caller hands the writer rows of any number of
\* genotypes, whatever the number of columns of the header and of the first row

\* a row of k genotypes: over the first k of the columns' models repeated
\* cyclically (sdat) or over k copies of one locus model (ldat)
AnyRow(format, k, m) ==
  LET models == IF format = "sdat"
                THEN [c \in 1..k |-> c_models[((c - 1) % Len(c_models)) + 1]]
                ELSE Repeat(m, k)
  IN  [models |-> models, idx |-> Fill(models, 0)]

WriteAnyRow ==
  /\ writer.state # CLOSED
  /\ Len(written) < MaxSchemaRows
  /\ \E k \in 1..MaxCols, m \in LocusModels :
       LET ch  == AnyRow(writer.format, k, m)
           row == RowOf(writer.format, Len(written) + 1, ch)
       IN  WriterCalled(writerow(writer, disk, row.rowkey, row.genos), "writerow",
                        <<Logical(writer.format, Len(written) + 1, ch)>>)

WriteAnyRows ==
  /\ writer.state # CLOSED
  /\ \E n \in 1..MaxBatch :
       /\ Len(written) + n <= MaxSchemaRows
       /\ \E k \in 1..MaxCols, m \in LocusModels :
            LET ch   == AnyRow(writer.format, k, m)
                rows == [j \in 1..n |-> RowOf(writer.format, Len(written) + j, ch)]
            IN  WriterCalled(writerows(writer, disk, rows), "writerows",
                             [j \in 1..n |-> Logical(writer.format, Len(written) + j, ch)])

NextSchema == WriteAnyRow \/ WriteAnyRows \/ Close

SpecSchema == Init /\ [][NextSchema]_vars

---------------------------------------------------------------------------
\* Specification SpecArray: one GenotypeArray, constructed empty or from a
\* sequence of genotypes, then set by position and by slice

\* a 3-bit model that knows every pair over A, C, G
M3 == model_from_alleles(<<A, C, G>>, FALSE, 0).model
\* a 2-bit model that holds the alleles A and C and no genotype over them
MOpen == add_allele(add_allele(UnphasedMarkerModel(FALSE, 2), A).model, C).model
\* a 2-bit model that holds no allele yet
MEmpty == UnphasedMarkerModel(FALSE, 2)

ModelCycle == <<M3, M3, MOpen, MEmpty>>

\* the models of the n positions: the cycle entered at r; each position has a
\* model object of its own
ArrayModels(n, r) == [i \in 1..n |-> ModelCycle[((i + r - 1) % Len(ModelCycle)) + 1]]

\* allele pairs handed to the array as 2-tuples
PairArgs == { <<A, A>>, <<C, A>>, <<A, T>>, <<None, A>> }

\* the Genotypes (indices) of the positions' models for fill k: at position j
\* genotype (k * j) modulo the number of genotypes of the position's model
Genos(models, n, k) ==
  [j \in 1..n |-> IF j <= Len(models) THEN (k * j) % Len(models[j].genotypes) ELSE 0]

SortedPair(geno) == <<Min2(geno[1], geno[2]), Max2(geno[1], geno[2])>>

\* the allele pairs of the Genotypes genos of the positions' models
PairsOf(models, genos) ==
  [j \in 1..Len(models) |-> alleles_of(models[j].genotypes[genos[j] + 1])]

\* seq with x at position j (1-based)
Put(seq, j, x) == [k \in 1..Len(seq) |-> IF k = j THEN x ELSE seq[k]]

AllMissing(n) == [j \in 1..n |-> <<None, None>>]

InitArray ==
  /\ ModelIdle
  /\ CodecIdle
  /\ \E n \in 1..MaxArrayLen, r \in 0..(Len(ModelCycle) - 1),
        initial_offset \in 0..MaxOffset, k \in 0..1 :
       LET descr == GenotypeArrayDescriptor(ArrayModels(n, r), initial_offset)
           genos == Genos(descr.models, n, 5)
           built == IF k = 0 THEN [array |-> GenotypeArray(descr), err |-> "none"]
                    ELSE GenotypeArrayFrom(descr, genos)
       IN  /\ built.err = "none"
           /\ arr      = built.array
           /\ a_prev   = built.array
           /\ a_shadow = IF k = 0 THEN AllMissing(n) ELSE PairsOf(descr.models, genos)
  /\ a_err  = "none"
  /\ a_last = NoArrayOp
  /\ a_ops  = 0
  /\ counted = NoCount

\* an operation op on the array that returned r; shadow is what the positions
\* hold afterwards according to the operations made
ArrayCalled(r, op, shadow) ==
  /\ a_ops < MaxArrayOps
  /\ a_ops'    = a_ops + 1
  /\ a_prev'   = arr
  /\ arr'      = r.array
  /\ a_err'    = r.err
  /\ a_last'   = op
  /\ a_shadow' = shadow
  /\ UNCHANGED <<mvars, cvars, counted>>

\* g[i] = a Genotype of the position's model
SetGenotype ==
  \E i \in 0..(Len(arr.descriptor.models) - 1) :
    \E index \in 0..(Len(arr.descriptor.models[i + 1].genotypes) - 1) :
      LET geno == alleles_of(arr.descriptor.models[i + 1].genotypes[index + 1])
      IN  ArrayCalled([array |-> setitem(arr, i, index), err |-> "none"],
                      [NoArrayOp EXCEPT !.op = "setitem", !.i = i, !.geno = geno],
                      Put(a_shadow, i + 1, geno))

\* g[i] = (allele1, allele2)
SetPair ==
  \E i \in 0..(Len(arr.descriptor.models) - 1), geno \in PairArgs :
    LET r == setitem_pair(arr, i, geno)
    IN  ArrayCalled(r,
                    [NoArrayOp EXCEPT !.op = "setitem_pair", !.i = i, !.geno = geno],
                    IF r.err = "none" THEN Put(a_shadow, i + 1, SortedPair(geno))
                    ELSE a_shadow)

\* g[:] = a sequence of n Genotypes of the positions' models
SetSlice ==
  \E n \in 0..(MaxArrayLen + 1), k \in 1..2 :
    LET genos == Genos(arr.descriptor.models, n, k)
        r     == setslice(arr, genos)
    IN  ArrayCalled(r,
                    [NoArrayOp EXCEPT !.op = "setslice", !.genos = genos],
                    IF r.err = "none" THEN PairsOf(arr.descriptor.models, genos)
                    ELSE a_shadow)

\* GenotypeArray(g, genos): a new array over the descriptor of g; when the
\* constructor raises, arr is the object it was constructing
Construct ==
  \E n \in 0..(MaxArrayLen + 1) :
    LET genos == Genos(arr.descriptor.models, n, 2)
        r     == GenotypeArrayFrom(arr.descriptor, genos)
    IN  ArrayCalled(r,
                    [NoArrayOp EXCEPT !.op = "construct", !.genos = genos],
                    IF r.err = "none" THEN PairsOf(arr.descriptor.models, genos)
                    ELSE AllMissing(Len(arr.descriptor.models)))

NextArray == SetGenotype \/ SetPair \/ SetSlice \/ Construct

SpecArray == InitArray /\ [][NextArray]_vars

---------------------------------------------------------------------------
\* Specification SpecRead: a closed file, written by the matrix writer or by
\* the triple writer of this or of a later release, is opened by either
\* loader; the consumer draws rows and exhausts or abandons the generator

\* the rows of a 2 x 2 matrix in `format`, every column under model m
MatrixRows(format, m) ==
  [k \in 1..2 |-> RowOf(format, k, [models |-> <<m, m>>, idx |-> Fill(<<m, m>>, k)])]

\* the file a writer leaves when it is closed after writerows
ClosedFile(w) == close(w.self, w.gfile).gfile

\* a 2 x 2 matrix written in `format` and closed
MatrixFile(format) ==
  ClosedFile(writerows(BinaryGenomatrixWriter(format, Header(format, 2), DEFAULT_SCRATCH),
                       NoFile,
                       MatrixRows(format, model_from_alleles(<<A, C>>, FALSE, 0).model)))

\* the Genotype of `model` for a pair of alleles
GenotypeOf(m, geno) == [model |-> m, index |-> m.genomap[geno]]

\* triples of two samples over two loci with models l1 and l2, among them a
\* missing genotype
Triples(l1, l2) ==
  << <<SampleLabel(1), LocusLabel(1), GenotypeOf(l1, <<A, C>>)>>,
     <<SampleLabel(1), LocusLabel(2), GenotypeOf(l2, <<None, None>>)>>,
     <<SampleLabel(2), LocusLabel(2), GenotypeOf(l2, <<C, C>>)>> >>

\* those triples written by save_genotriples_binary
TripleFile ==
  save_genotriples_binary(Triples(model_from_alleles(<<A, C>>, FALSE, 0).model,
                                  model_from_alleles(<<C>>, FALSE, 0).model))

\* the files read: the attributes GLU_VERSION and GLU_COMPAT_VERSION are those
\* of a release up to MaxVersion, the compatible version never the greater
ReadFiles ==
  { [f EXCEPT !.version = vc[1], !.compat_version = vc[2]] :
      f \in {MatrixFile(format) : format \in {"ldat", "sdat"}} \cup {TripleFile},
      vc \in { p \in (1..MaxVersion) \X (1..MaxVersion) : p[2] <= p[1] } }

InitRead ==
  /\ ModelIdle
  /\ ArrayIdle
  /\ writer   = [BinaryGenomatrixWriter("sdat", <<>>, DEFAULT_SCRATCH) EXCEPT !.state = CLOSED]
  /\ w_err    = "none"
  /\ w_last   = "init"
  /\ w_fail   = FALSE
  /\ written  = <<>>
  /\ w_header = <<>>
  /\ w_models = <<>>
  /\ c_models = <<>>
  /\ reader   = NoReader
  /\ disk \in ReadFiles

Reads(rd) ==
  /\ reader' = rd
  /\ UNCHANGED <<mvars, avars, writer, disk, w_err, w_last, w_fail, written, w_header,
                 w_models, c_models>>

\* the formats a caller asks load_genomatrix_binary for
RequestFormats == {"ldat", "sdat", "genotriple"}

LoadMatrix ==
  /\ reader.state = "idle"
  /\ \E format \in RequestFormats, scratch \in Scratches :
       Reads(load_genomatrix_binary(disk, format, scratch))

LoadTriples ==
  /\ reader.state = "idle"
  /\ Reads(load_genotriples_binary(disk))

\* the consumer asks the generator for more: a chunk of matrix rows, or a triple
NextRows ==
  /\ reader.state = "open"
  /\ \/ /\ reader.kind = "matrix"
        /\ reader.i < chunks_of(disk, reader)
        /\ Reads(load_chunk(disk, reader))
     \/ /\ reader.kind = "triples"
        /\ reader.i < Len(disk.triples)
        /\ Reads(load_triple(disk, reader))

\* the consumer asks for more when the loop is over: the generator closes the
\* file and ends
Finish ==
  /\ reader.state = "open"
  /\ reader.i >= (IF reader.kind = "matrix" THEN chunks_of(disk, reader)
                  ELSE Len(disk.triples))
  /\ Reads(load_end(reader))

\* the consumer drops the generator before its end: the generator is
\* finalized where it stands and nothing after that point runs
Abandon ==
  /\ reader.state = "open"
  /\ Reads([reader EXCEPT !.state = "abandoned"])

NextRead == LoadMatrix \/ LoadTriples \/ NextRows \/ Finish \/ Abandon

SpecRead == InitRead /\ [][NextRead]_vars

---------------------------------------------------------------------------
\* Specification SpecChunk: a writer of one-column rows, with a scratch of one
\* byte (chunks of CHUNKROWS_MIN rows) or the default, is handed more rows than
\* a chunk holds, one by one and in batches, and is closed

MaxChunked == 9

\* the row a caller hands over as row k, over model m
ChunkedRow(m, k) == [models |-> <<m>>, idx |-> Fill(<<m>>, k)]

InitChunk ==
  /\ ModelIdle
  /\ ArrayIdle
  /\ \E format \in {"ldat", "sdat"}, scratch \in Scratches :
       /\ writer = BinaryGenomatrixWriter(format, Header(format, 1), scratch)
       /\ w_header = Header(format, 1)
       /\ c_models \in (IF format = "sdat" THEN [1..1 -> LocusModels] ELSE {<<>>})
  /\ disk    = NoFile
  /\ w_err   = "none"
  /\ w_last  = "init"
  /\ w_fail  = FALSE
  /\ written = <<>>
  /\ w_models = <<>>
  /\ reader  = NoReader

\* the models a row may be over: the column's in sdat, any locus model in ldat
ChunkedModels == IF writer.format = "sdat" THEN {c_models[1]} ELSE LocusModels

AppendRow ==
  /\ writer.state # CLOSED
  /\ Len(written) < MaxChunked
  /\ \E m \in ChunkedModels :
       LET k   == Len(written) + 1
           row == RowOf(writer.format, k, ChunkedRow(m, k))
       IN  WriterCalled(writerow(writer, disk, row.rowkey, row.genos), "writerow",
                        <<Logical(writer.format, k, ChunkedRow(m, k))>>)

AppendRows ==
  /\ writer.state # CLOSED
  /\ \E n \in 1..MaxBatch, m \in ChunkedModels :
       /\ Len(written) + n <= MaxChunked
       /\ WriterCalled(writerows(writer, disk,
                                 [j \in 1..n |-> RowOf(writer.format, Len(written) + j,
                                                       ChunkedRow(m, Len(written) + j))]),
                       "writerows",
                       [j \in 1..n |-> Logical(writer.format, Len(written) + j,
                                               ChunkedRow(m, Len(written) + j))])

NextChunked == AppendRow \/ AppendRows \/ Close

SpecChunk == InitChunk /\ [][NextChunked]_vars

---------------------------------------------------------------------------
\* Specification SpecCount: count_genotypes2 is called once on the genotypes of
\* two loci, each over a model of two or of four genotypes

MaxCountLen == 2

\* models over one allele and over two
CountModels ==
  { model_from_alleles(<<A>>, FALSE, 0).model,
    model_from_alleles(<<A, C>>, FALSE, 0).model }

\* the sequences of at most MaxCountLen Genotypes of model m, by index
GenotypesOf(m) ==
  UNION { [1..len -> 0..(Len(m.genotypes) - 1)] : len \in 0..MaxCountLen }

InitCount ==
  /\ ModelIdle
  /\ CodecIdle
  /\ ArrayIdle

CountGenotypes2 ==
  /\ counted.op = "init"
  /\ \E model1 \in CountModels, model2 \in CountModels :
       \E genos1 \in GenotypesOf(model1), genos2 \in GenotypesOf(model2) :
         counted' = [op |-> "count_genotypes2",
                     model1 |-> model1, genos1 |-> genos1,
                     model2 |-> model2, genos2 |-> genos2,
                     out |-> count_genotypes2(model1, genos1, model2, genos2).out,
                     err |-> count_genotypes2(model1, genos1, model2, genos2).err]
  /\ UNCHANGED <<mvars, cvars, arr, a_err, a_last, a_prev, a_shadow, a_ops>>

NextCount == CountGenotypes2

SpecCount == InitCount /\ [][NextCount]_vars

---------------------------------------------------------------------------
\* Claims about the model

\* number of non-missing alleles a model holds
NonMissing(m) == Cardinality({i \in 1..Len(m.alleles) : m.alleles[i] # None})

WidthError == "GenotypeError: fixed bit width"

\* the last call tried to bring an allele into the model that it did not hold
NewAlleleCall ==
  \/ /\ m_last.op = "add_allele"
     /\ ~InSeq(m_prev.alleles, m_last.allele)
  \/ /\ m_last.op = "add_genotype"
     /\ \E i \in 1..2 : ~InSeq(m_prev.alleles, m_last.geno[i])

\* C8: on a model constructed with max_alleles=2 that holds two non-missing
\* alleles, add_allele of a third allele and add_genotype of a pair containing
\* a third allele raise the capacity error and leave the genotype list as it was.
C8_CapacityEnforced ==
  (m_prev.max_alleles = 2 /\ NonMissing(m_prev) = 2 /\ NewAlleleCall)
    => (m_err = WidthError /\ model.genotypes = m_prev.genotypes)

C8_Witness ==
  /\ m_prev.max_alleles = 2 /\ NonMissing(m_prev) = 2
  /\ m_last.op = "add_genotype"
  /\ \E i \in 1..2 : ~InSeq(m_prev.alleles, m_last.geno[i])
  /\ m_err = WidthError
  /\ Len(model.genotypes) > 1

\* C9: the bit width is the one computed at construction after any sequence of
\* successful or failed calls, and an add_allele whose resulting allele count
\* would need more bits than that width fails.
C9_BitWidthFixed ==
  /\ model.bit_size = m_bits0
  /\ (/\ m_last.op = "add_allele"
      /\ ~InSeq(m_prev.alleles, m_last.allele)
      /\ genotype_bit_size(NonMissing(m_prev) + 1, m_prev.allow_hemizygote) > m_bits0)
     => (m_err = WidthError /\ model = m_prev)

C9_Witness ==
  /\ m_last.op = "add_allele"
  /\ m_err = WidthError
  /\ model.bit_size = m_bits0
  /\ m_ops = MaxOps

\* number of genotypes over n alleles (the missing genotype included)
GenotypeSpace(n, allow_hemizygote) ==
  IF allow_hemizygote THEN ((n + 1) * (n + 2)) \div 2 ELSE (n * (n + 1)) \div 2 + 1

\* b is the least integer with 2^b >= m
LeastBits(b, m) == 2^b >= m /\ (b = 0 \/ 2^(b - 1) < m)

\* C10: genotype_bit_size(n,h) is the least b with 2^b >= m for n in
\* {0,1,2,3,5,10}, and a model built with max_alleles = n >= 2 has exactly that
\* width: 2 bits for 2 alleles and 4 bits for 5 alleles without hemizygosity.
C10_BitSize ==
  /\ \A n \in {0, 1, 2, 3, 5, 10}, h \in BOOLEAN :
       LeastBits(genotype_bit_size(n, h), GenotypeSpace(n, h))
  /\ LeastBits(model.bit_size, GenotypeSpace(model.max_alleles, model.allow_hemizygote))
  /\ (model.max_alleles = 2 /\ ~model.allow_hemizygote) => model.bit_size = 2
  /\ (model.max_alleles = 5 /\ ~model.allow_hemizygote) => model.bit_size = 4

C10_Witness ==
  /\ model.max_alleles = 5 /\ ~model.allow_hemizygote
  /\ model.bit_size = 4
  /\ NonMissing(model) = 2

\* C11: a model constructed with max_alleles = k never holds more than
\* max(2, k) non-missing alleles, whatever add_allele and add_genotype calls
\* are made on it and whether or not it allows hemizygotes.
C11_MaxAlleles == NonMissing(model) <= model.max_alleles

Swapped(geno) == <<geno[2], geno[1]>>

\* C12: add_genotype((a,b)) and add_genotype((b,a)) return the same Genotype
\* (the same entry of the model's list, with the same index) in either order,
\* and the second of the two calls adds nothing to the model: after a
\* successful add_genotype((a,b)) the call with (b,a) returns what the first
\* returned and leaves the model as it is, and a call whose swapped pair the
\* model already knew returned that pair's genotype and changed nothing.
C12_Canonical ==
  (m_last.op = "add_genotype" /\ m_err = "none") =>
    /\ LET r == add_genotype(model, Swapped(m_last.geno))
       IN  r.err = "none" /\ r.ret = m_ret /\ r.model = model
    /\ (Swapped(m_last.geno) \in DOMAIN m_prev.genomap =>
          (m_ret = m_prev.genomap[Swapped(m_last.geno)] /\ model = m_prev))
    /\ alleles_of(model.genotypes[m_ret + 1]) \in {m_last.geno, Swapped(m_last.geno)}

\* an add_genotype((a,b)), a > b, that created a genotype
C12_Witness ==
  /\ m_last.op = "add_genotype" /\ m_err = "none"
  /\ m_last.geno[1] > m_last.geno[2] /\ m_last.geno[2] # None
  /\ Len(model.genotypes) = Len(m_prev.genotypes) + 1

\* C13: get_genotype only looks up: it changes neither the allele list nor the
\* genotype list, and for a pair the model does not know it raises the
\* unknown-genotype error (KeyError) even when the pair could be added.
C13_LookupOnly ==
  m_last.op = "get_genotype" =>
    /\ model.alleles = m_prev.alleles
    /\ model.genotypes = m_prev.genotypes
    /\ (m_last.geno \notin DOMAIN m_prev.genomap => m_err = "KeyError")

HemiError == "GenotypeError: hemizygous"

HemiCall == m_last.op = "add_genotype" /\ _hemi(m_last.geno)

NoHemizygotes(m) ==
  m.allow_hemizygote \/ \A i \in 1..Len(m.genotypes) : ~hemizygote(m.genotypes[i])

\* C14 as stated: on a model that does not allow hemizygotes every
\* add_genotype of a pair with exactly one missing allele raises the
\* hemizygote error and no hemizygous genotype is ever in the genotype list;
\* on a model that allows them the same call succeeds.
C14_AsStated ==
  /\ NoHemizygotes(model)
  /\ (HemiCall /\ ~m_prev.allow_hemizygote) => m_err = HemiError
  /\ (HemiCall /\ m_prev.allow_hemizygote) => m_err = "none"

\* the non-missing allele of the pair of the last call
Present(geno) == IF geno[1] = None THEN geno[2] ELSE geno[1]

\* the allele is in the model or one more allele fits the model's bit width
Fits(m, allele) ==
  \/ InSeq(m.alleles, allele)
  \/ genotype_bit_size(NonMissing(m) + 1, m.allow_hemizygote) <= m.bit_size

\* C14: on a model that does not allow hemizygotes every add_genotype of a
\* pair with exactly one missing allele fails and no hemizygous genotype is
\* ever in the genotype list; the error is the hemizygote error when the
\* pair's allele is in the model or fits its bit width, and the bit-width
\* error otherwise.  On a model that allows hemizygotes the same call succeeds
\* when the allele is in the model or fits, and fails with the bit-width
\* error otherwise.
C14_Hemizygote ==
  /\ NoHemizygotes(model)
  /\ (HemiCall /\ ~m_prev.allow_hemizygote) =>
       /\ model.genotypes = m_prev.genotypes
       /\ m_err = (IF Fits(m_prev, Present(m_last.geno)) THEN HemiError ELSE WidthError)
  /\ (HemiCall /\ m_prev.allow_hemizygote) =>
       m_err = (IF Fits(m_prev, Present(m_last.geno)) THEN "none" ELSE WidthError)

\* a hemizygous pair refused by a model that does not allow hemizygotes, after
\* another call
C14_Witness ==
  /\ HemiCall /\ ~m_prev.allow_hemizygote
  /\ m_err = HemiError
  /\ m_ops = MaxOps

UnorderedPair(g) == {g.allele1, g.allele2}

\* C15: genotypes[0] is the missing genotype, the genotype at list position i
\* has index i, and no two entries hold the same unordered allele pair, after
\* any successful and failed calls.
C15_DenseIndices ==
  /\ alleles_of(model.genotypes[1]) = <<None, None>>
  /\ \A i \in 1..Len(model.genotypes) : model.genotypes[i].index = i - 1
  /\ \A i, j \in 1..Len(model.genotypes) :
       UnorderedPair(model.genotypes[i]) = UnorderedPair(model.genotypes[j]) => i = j

\* a failed add_genotype on a model to which a genotype was added before
C15_Witness ==
  /\ m_last.op = "add_genotype" /\ m_err # "none"
  /\ m_ops = MaxOps
  /\ Len(model.genotypes) >= 4
  /\ Len(model.genotypes) > GenotypeSpace(MaxPrefill, model.allow_hemizygote)

---------------------------------------------------------------------------
\* Claims about the writer and the reader (specification Spec)

\* the rows of a stream as labels and allele pairs
Rows(out) ==
  [j \in 1..Len(out) |-> [label |-> out[j].label, calls |-> calls_of(out[j].genos)]]

IsPrefix(s, t) == Len(s) <= Len(t) /\ s = SubSeq(t, 1, Len(s))

\* the matrix handed to the writer, transposed: one row per column label
Transposed(labels, rows) ==
  [j \in 1..Len(labels) |->
     [label |-> labels[j], calls |-> [r \in 1..Len(rows) |-> rows[r].calls[j]]]]

ReadBack(format) ==
  /\ writer.state = CLOSED
  /\ written # <<>>
  /\ reader.state # "idle"
  /\ reader.format = format

\* C1: a matrix written in format F and loaded in format F comes back with the
\* same row labels in the same order, the same column labels and the same
\* allele pair at every position, whatever the scratch budget: the write and
\* the load raise nothing, every row yielded is the row written at its place,
\* and the exhausted stream has yielded all of them.
C1_RoundTripSameFormat ==
  ReadBack(writer.format) =>
    /\ ~w_fail
    /\ disk.saved
    /\ reader.state # "error"
    /\ disk.cols = w_header
    /\ IsPrefix(Rows(reader.out), written)
    /\ (reader.state = "done" => Len(reader.out) = Len(written))

\* the end-to-end scenario's matrix, loci-major, and what is expected sample-major
ScenarioWritten ==
  << [label |-> LocusLabel(1), calls |-> << <<A, A>>, <<A, G>>, <<G, G>> >>],
     [label |-> LocusLabel(2), calls |-> << <<None, None>>, <<C, T>>, <<T, T>> >>] >>

ScenarioExpected ==
  << [label |-> SampleLabel(1), calls |-> << <<A, A>>, <<None, None>> >>],
     [label |-> SampleLabel(2), calls |-> << <<A, G>>, <<C, T>> >>],
     [label |-> SampleLabel(3), calls |-> << <<G, G>>, <<T, T>> >>] >>

\* C2: the scenario's matrix, written loci-major and loaded as sdat, comes back
\* as exactly the three sample rows s1, s2, s3 and no error is raised: the load
\* does not fail, what has been yielded is a prefix of the three rows, and the
\* exhausted stream has yielded all three.
C2_Scenario ==
  (ReadBack("sdat") /\ writer.format = "ldat" /\ written = ScenarioWritten) =>
    /\ ~w_fail
    /\ reader.state # "error"
    /\ IsPrefix(Rows(reader.out), ScenarioExpected)
    /\ (reader.state = "done" => Len(reader.out) = 3)

\* the generator run to its end
RECURSIVE load_all(_, _)
load_all(gfile, rd) ==
  IF rd.state = "open" /\ rd.i < chunks_of(gfile, rd)
  THEN load_all(gfile, load_chunk(gfile, rd))
  ELSE IF rd.state = "open" THEN [rd EXCEPT !.state = "done"] ELSE rd

\* the rows of an sdat stream written sample-major to a new file with the
\* loci as header, and that file loaded as ldat
WrittenBack(out, loci, scratch) ==
  LET w   == writerows(BinaryGenomatrixWriter("sdat", loci, DEFAULT_SCRATCH), NoFile,
                       [j \in 1..Len(out) |-> [rowkey |-> out[j].label,
                                               genos  |-> out[j].genos]])
      c   == close(w.self, w.gfile)
      rd  == IF c.gfile.exists
             THEN load_all(c.gfile, load_genomatrix_binary(c.gfile, "ldat", scratch))
             ELSE [NoReader EXCEPT !.state = "error", !.err = "IOError"]
  IN  [err |-> w.err # "none" \/ c.err # "none" \/ rd.state # "done",
       out |-> rd.out]

\* C3: a matrix written loci-major, loaded as sdat, written again sample-major
\* and loaded as ldat is the original matrix, labels and allele pairs, for
\* every scratch budget: neither load fails, and the rows of the second load
\* are the rows first written.
C3_OrientationInvariance ==
  (ReadBack("sdat") /\ writer.format = "ldat" /\ reader.state # "open") =>
    /\ ~w_fail
    /\ reader.state = "done"
    /\ \A scratch \in Scratches :
         LET back == WrittenBack(reader.out, disk.rows, scratch)
         IN  ~back.err /\ Rows(back.out) = written

\* C4: loading a stored sdat file as ldat yields one row per stored column, in
\* the columns' order and under the columns' labels, holding at position r the
\* allele pair written at (row r, that column); the load raises nothing.
C4_SdatAsLdat ==
  (ReadBack("ldat") /\ writer.format = "sdat") =>
    /\ reader.state # "error"
    /\ IsPrefix(Rows(reader.out), Transposed(disk.cols, written))
    /\ (reader.state = "done" => Len(reader.out) = Len(w_header))

\* a finished sdat-as-ldat load over loci of different bit widths in which the
\* last chunk began inside a byte
C4_Witness ==
  /\ ReadBack("ldat") /\ writer.format = "sdat"
  /\ reader.state = "done"
  /\ Len(written) >= 2
  /\ reader.offset # 0
  /\ \E i, j \in 1..Len(c_models) : c_models[i].bit_size # c_models[j].bit_size

\* C5: after close(), every later writerow, writerows or close raises, the
\* writer stays Closed, and the call appends nothing to the file nor to the
\* writer's row labels, models or chunk.  (Of the steps taken once the writer
\* is closed, the calls on the writer are those that leave the reader alone.)
C5_ClosedWriter ==
  [][(writer.state = CLOSED /\ reader' = reader) =>
       /\ w_err' = "IOError"
       /\ writer' = writer
       /\ disk' = disk]_vars

\* a writerow on a writer closed after writing a file has raised
C5_Witness ==
  /\ writer.state = CLOSED
  /\ disk.saved
  /\ w_last = "writerow"
  /\ w_err = "IOError"

\* C6: the writer's state only moves forward along NotOpen -> Open -> Closed,
\* and it goes from NotOpen to Open in exactly the calls that hand it its first row.
C6_OneWay ==
  [][/\ (writer.state = OPEN   => writer'.state \in {OPEN, CLOSED})
     /\ (writer.state = CLOSED => writer'.state = CLOSED)
     /\ (writer.state = NOTOPEN =>
           ((writer'.state = OPEN) <=> (written = <<>> /\ written' # <<>>)))
     /\ (writer'.state = NOTOPEN => writer.state = NOTOPEN)]_vars

\* a writer that was handed rows and then closed, leaving a saved file
C6_Witness ==
  /\ writer.state = CLOSED
  /\ written # <<>>
  /\ w_last = "close"
  /\ w_err = "none"
  /\ disk.saved

\* C7: once the first row has fixed the row width, a writerow or writerows
\* call with a row of another number of genotypes fails, and that row is not
\* taken: its label is neither among the writer's row labels nor among the
\* file's, and when it is the last row handed over the call that handed it raised.
C7_SchemaEnforced ==
  \A k \in 1..Len(written) :
    Len(written[k].calls) # Len(written[1].calls) =>
      /\ ~InSeq(writer.rowkeys, written[k].label)
      /\ ~InSeq(disk.rows, written[k].label)
      /\ ((k = Len(written) /\ w_last \in {"writerow", "writerows"}) => w_err # "none")

\* the key the claim names: max_alleles, allow_hemizygote and the allele pairs
\* of the genotypes after the missing one, in order
KeyOf(m) ==
  <<m.max_alleles, m.allow_hemizygote,
    SubSeq([i \in 1..Len(m.genotypes) |-> alleles_of(m.genotypes[i])], 2, Len(m.genotypes))>>

\* C19: the saved file has one models entry per distinct key of the writer's
\* locus models; loci with equal keys carry the same model index, loci with
\* different keys different ones, and the entry holds the key's parameters
C19_ModelDedup ==
  disk.saved =>
    LET n == Len(w_models)
    IN  /\ Len(disk.locus_models) = n
        /\ Len(disk.models) = Cardinality({ KeyOf(w_models[i]) : i \in 1..n })
        /\ \A i \in 1..n :
             /\ disk.locus_models[i] \in 0..(Len(disk.models) - 1)
             /\ disk.models[disk.locus_models[i] + 1][1] = w_models[i].max_alleles
             /\ (disk.models[disk.locus_models[i] + 1][2] # 0) = w_models[i].allow_hemizygote
        /\ \A i, j \in 1..n :
             (KeyOf(w_models[i]) = KeyOf(w_models[j]))
               <=> (disk.locus_models[i] = disk.locus_models[j])

\* three loci were saved: two with equal models, and one whose model differs
\* from theirs in its genotypes only
C19_Witness ==
  /\ disk.saved
  /\ \E i, j, k \in 1..Len(w_models) :
       /\ i # j
       /\ KeyOf(w_models[i]) = KeyOf(w_models[j])
       /\ KeyOf(w_models[i]) # KeyOf(w_models[k])
       /\ w_models[i].max_alleles = w_models[k].max_alleles
       /\ w_models[i].allow_hemizygote = w_models[k].allow_hemizygote
       /\ disk.locus_models[i] = disk.locus_models[j]
       /\ disk.locus_models[i] # disk.locus_models[k]

\* C20: after a load, loci with the same stored model index hold the same
\* model object, there are as many objects as stored definitions in use, and
\* the model of each locus has the genotypes of the model that was saved for
\* it, each at the index it had
C20_SharedOnLoad ==
  reader.models # <<>> =>
    LET n == Len(reader.models)
    IN  /\ n = Len(disk.locus_models)
        /\ Len(reader.refs) = n
        /\ \A i, j \in 1..n :
             /\ disk.locus_models[i] = disk.locus_models[j] => reader.refs[i] = reader.refs[j]
             /\ reader.refs[i] = reader.refs[j] => reader.models[i] = reader.models[j]
        /\ Cardinality({ reader.refs[i] : i \in 1..n })
             = Cardinality({ disk.locus_models[i] : i \in 1..n })
        /\ \A i \in 1..n :
             /\ reader.models[i].genotypes = w_models[i].genotypes
             /\ \A g \in 1..Len(reader.models[i].genotypes) :
                  reader.models[i].genotypes[g].index = g - 1

\* a file of three loci was loaded: two share a stored model of more than two
\* genotypes, the third has another
C20_Witness ==
  /\ reader.state = "open"
  /\ \E i, j, k \in 1..Len(reader.models) :
       /\ i # j
       /\ disk.locus_models[i] = disk.locus_models[j]
       /\ disk.locus_models[i] # disk.locus_models[k]
       /\ reader.refs[i] = reader.refs[j]
       /\ reader.refs[i] # reader.refs[k]
       /\ Len(reader.models[i].genotypes) > 3
       /\ Len(reader.models[k].genotypes) > 3

---------------------------------------------------------------------------
\* Claims about the genotype array

\* the position an operation was made at has a bit field in two bytes
Straddles(self, i) ==
  LET startbit == self.descriptor.offsets[i + 1]
      width    == self.descriptor.models[i + 1].bit_size
  IN  startbit \div 8 # (startbit + width - 1) \div 8

\* C16: setting position i to a raw allele pair that the position's model has
\* not seen, and that add_genotype would accept within the fixed bit width,
\* succeeds, adds the pair to the model and makes get(i) return it
C16_SetUnseenPair ==
  LET i    == a_last.i
      geno == a_last.geno
      m0   == a_prev.descriptor.models[i + 1]
      m1   == arr.descriptor.models[i + 1]
      got  == getitem(arr, i)
  IN  (/\ a_last.op = "setitem_pair"
       /\ geno \notin DOMAIN m0.genomap
       /\ add_genotype(m0, geno).err = "none") =>
        /\ a_err = "none"
        /\ geno \in DOMAIN m1.genomap
        /\ got.err = "none"
        /\ got.index = m1.genomap[geno]
        /\ alleles_of(m1.genotypes[got.index + 1]) = SortedPair(geno)

\* C17: every position reads as the genotype most recently set there, the
\* missing genotype if never set, and a set at one position changes the value
\* read at no other position
C17_SetGetRoundTrip ==
  /\ calls_of(arr) = a_shadow
  /\ a_last.op \in {"setitem", "setitem_pair"} =>
       \A j \in 0..(Len(arr.descriptor.models) - 1) :
         j # a_last.i => getitem(arr, j) = getitem(a_prev, j)

\* a genotype whose index needs the field's highest bit was set at a position
\* whose bit field lies in two bytes, behind a nonzero initial offset, in an
\* array with models of two widths and another position that is not missing
C17_Witness ==
  /\ a_last.op = "setitem"
  /\ a_err = "none"
  /\ Straddles(arr, a_last.i)
  /\ getitem(arr, a_last.i).index >= 2 ^ (arr.descriptor.models[a_last.i + 1].bit_size - 1)
  /\ arr.descriptor.offsets[1] > 0
  /\ \E j \in 0..(Len(arr.descriptor.models) - 1) :
       j # a_last.i /\ getitem(arr, j).index > 0
  /\ \E j \in 0..(Len(arr.descriptor.models) - 1) :
       arr.descriptor.models[j + 1].bit_size # arr.descriptor.models[a_last.i + 1].bit_size

\* C18: a bulk construction or full-slice assignment from a sequence whose
\* length differs from the descriptor's fails with IndexError and has written
\* no position: the assigned array is as before, the constructed one is zero
C18_LengthMismatch ==
  (/\ a_last.op \in {"setslice", "construct"}
   /\ Len(a_last.genos) # Len(a_prev.descriptor.models)) =>
     /\ a_err = "IndexError"
     /\ a_last.op = "setslice" => arr = a_prev
     /\ a_last.op = "construct" =>
          /\ arr.descriptor = a_prev.descriptor
          /\ \A k \in 1..Len(arr.data) : arr.data[k] = 0

\* a full-slice assignment of too few genotypes, not all missing, failed on an
\* array that held genotypes
C18_Witness ==
  /\ a_last.op = "setslice"
  /\ a_err = "IndexError"
  /\ Len(a_last.genos) < Len(arr.descriptor.models)
  /\ \E j \in 1..Len(a_last.genos) : a_last.genos[j] # 0
  /\ \E k \in 1..Len(arr.data) : arr.data[k] # 0

---------------------------------------------------------------------------
\* Claims about the loaders

\* a loader was called, on a file of the layout it reads and, for the matrix
\* loader, for a format it yields
LoaderCalled == reader.kind # ""

OwnLayout ==
  \/ reader.kind = "matrix" /\ reader.format \in {"ldat", "sdat"}
                            /\ disk.format \in {"ldat", "sdat"}
  \/ reader.kind = "triples" /\ disk.format = "genotriple"

\* C21: a file whose compatible version is above 2 is rejected by either
\* loader before any row is produced and before its models are loaded; a file
\* of a version above 2 whose compatible version is 1 or 2 is read with the
\* model loader of the compatible version
C21_VersionHandling ==
  /\ (LoaderCalled /\ disk.compat_version > GENOMATRIX_VERSION) =>
        /\ reader.state = "error"
        /\ reader.out = <<>>
        /\ reader.version = 0
  /\ (LoaderCalled /\ OwnLayout /\ disk.version > GENOMATRIX_VERSION
             /\ disk.compat_version <= GENOMATRIX_VERSION) =>
        /\ reader.version = disk.compat_version
        /\ reader.err # "ValueError"

\* a matrix of version 3 and compatible version 1 was read to its end, with
\* rows produced
C21_Witness ==
  /\ reader.kind = "matrix"
  /\ reader.state = "done"
  /\ reader.out # <<>>
  /\ disk.version = 3
  /\ disk.compat_version = 1
  /\ reader.version = 1

\* C22: the matrix loader on a file whose stored format is neither ldat nor
\* sdat, and the triple loader on a file whose stored format is not
\* genotriple, fail with the format error and produce no row; the file is of
\* a version the loader accepts
C22_FormatTag ==
  (/\ disk.compat_version <= GENOMATRIX_VERSION
   /\ \/ reader.kind = "matrix"  /\ disk.format \notin {"ldat", "sdat"}
      \/ reader.kind = "triples" /\ disk.format # "genotriple") =>
     /\ reader.state = "error"
     /\ reader.err = FormatError
     /\ reader.out = <<>>

\* C23: once a loader has returned its row sequence, the file it opened is
\* closed when the sequence has ended, however it ends: exhausted, abandoned
\* by the consumer, or ended by an error raised while rows are produced (the
\* IndexError of a pass of the loop). No step follows any of these ends, so
\* a file open there is never closed
C23_HandleReleased ==
  (\/ reader.state \in {"done", "abandoned"}
   \/ reader.state = "error" /\ reader.err = "IndexError") => ~reader.handle

\* C24: in a read that transposes, the stored bytes fetched in one pass of
\* the chunk loop, (number of stored rows) x (stopbyte - startbyte), never
\* exceed the scratch argument of the load
C24_ScratchBound ==
  (reader.kind = "matrix" /\ reader.format # disk.format /\ reader.scratch > 0) =>
     reader.fetched <= reader.scratch

---------------------------------------------------------------------------
\* Claims about the chunked append

\* the model row k was written over, and the bytes of the row
ModelWritten(k) == IF writer.format = "sdat" THEN c_models[1] ELSE w_models[k]
BytesWritten(k) == RowOf(writer.format, k, ChunkedRow(ModelWritten(k), k)).genos.data
AllBytesWritten == [k \in 1..Len(written) |-> BytesWritten(k)]

---------------------------------------------------------------------------
\* Claims about count_genotypes2

\* number of positions at which genos1 holds genotype i of model1 and genos2
\* genotype j of model2
Positions(i, j) ==
  Cardinality({k \in 1..Len(counted.genos1) :
                 counted.genos1[k] = i /\ counted.genos2[k] = j})

RECURSIVE SumCounts(_)
SumCounts(out) == IF out = <<>> THEN 0 ELSE Head(out).count + SumCounts(Tail(out))

\* C26: called on sequences of one length, count_genotypes2 returns one entry
\* for every pair of a genotype of model1 and a genotype of model2, holding the
\* number of positions at which the two sequences hold that pair, whatever
\* the numbers of genotypes of the two models; the counts add up to the length
C26_PairCounts ==
  (counted.op = "count_genotypes2" /\ Len(counted.genos1) = Len(counted.genos2)) =>
     /\ counted.err = "none"
     /\ \A i \in 0..(Len(counted.model1.genotypes) - 1),
           j \in 0..(Len(counted.model2.genotypes) - 1) :
          \E p \in 1..Len(counted.out) :
            /\ counted.out[p].g1 = counted.model1.genotypes[i + 1]
            /\ counted.out[p].g2 = counted.model2.genotypes[j + 1]
            /\ counted.out[p].count = Positions(i, j)
     /\ SumCounts(counted.out) = Len(counted.genos1)

---------------------------------------------------------------------------
\* Claims about the arrays and the chunks of a read

\* C27: every GenotypeArray the matrix loader builds has a buffer as long as
\* the byte size of its descriptor: the arrays it yields, and the arrays over
\* a chunk of each stored row that a transposing read decodes, whose buffer is
\* the bytes startbit div 8 up to (stopbit + 7) div 8 of the row
C27_BufferLength ==
  reader.kind = "matrix" =>
    /\ \A j \in 1..Len(reader.out) :
         Len(reader.out[j].genos.data) = reader.out[j].genos.descriptor.byte_size
    /\ \A j \in 1..Len(reader.chunkarrays) :
         reader.chunkarrays[j].size = reader.chunkarrays[j].byte_size

\* a transposing read of a matrix whose loci have models of two bit widths
\* decoded a chunk that starts inside a byte
C27_Witness ==
  /\ reader.kind = "matrix"
  /\ reader.format # disk.format
  /\ reader.state \in {"open", "done"}
  /\ reader.out # <<>>
  /\ reader.chunkarrays # <<>>
  /\ reader.offset > 0
  /\ \E a, b \in 1..Len(reader.models) :
       reader.models[a].bit_size # reader.models[b].bit_size

\* C28: in a transposing read the passes of the chunk loop take the stored
\* columns in consecutive ranges: no pass indexes the offset table past its
\* last entry (no IndexError ends the read), the rows yielded so far are the
\* first stored columns in stored order, one row each, and when the loop is
\* over every stored column has been yielded
C28_ColumnCoverage ==
  (reader.kind = "matrix" /\ reader.format # disk.format
                          /\ reader.state \in {"open", "done", "error"}
                          /\ reader.version # 0 /\ reader.models # <<>>) =>
     /\ reader.err # "IndexError"
     /\ reader.stop = Len(reader.out)
     /\ Len(reader.out) <= Len(disk.cols)
     /\ \A j \in 1..Len(reader.out) : reader.out[j].label = disk.cols[j]
     /\ reader.state = "done" => Len(reader.out) = Len(disk.cols)

---------------------------------------------------------------------------
\* Claims about the capacity of a model and about failed calls

\* C29: after any calls on a model the number of its genotypes is at most
\* 2^bit_size, so that the index of each genotype, 0 up to that number less
\* one, fits the model's bit field
C29_IndexFits ==
  /\ Len(model.genotypes) <= 2 ^ model.bit_size
  /\ \A i \in 1..Len(model.genotypes) : model.genotypes[i].index < 2 ^ model.bit_size

\* a model whose genotypes fill its bit field was asked for one more
C29_Witness ==
  /\ Len(model.genotypes) = 2 ^ model.bit_size
  /\ m_last.op = "add_genotype"
  /\ m_err # "none"
  /\ Len(m_prev.genotypes) = 2 ^ model.bit_size

\* C30: an add_genotype that raised has left the model's alleles, genotypes
\* and genomap as they were before the call
C30_FailedAddGenotype ==
  (m_last.op = "add_genotype" /\ m_err # "none") =>
     /\ model.alleles   = m_prev.alleles
     /\ model.genotypes = m_prev.genotypes
     /\ model.genomap   = m_prev.genomap

====
